---- MODULE Spec2Model ----
(***************************************************************************)
(* ARC-C cryptoperiod calculator: the device-compromise probability engine *)
(* (import_devices_ui.py), the risk-factor scorers (parameters_ui.py) and  *)
(* the final calculator (main.py, ShowResults).                            *)
(*                                                                         *)
(* main.py imports GetImportValues and updateTimeDifference; the modules   *)
(* it imports from define get_import_values and update_time_difference.    *)
(* The model binds the imported names to those functions.                  *)
(*                                                                         *)
(* Numbers.  The program computes in Python floats.  The model computes    *)
(* the same expressions over exact rationals (sign, numerator,             *)
(* denominator) whose numerator and denominator are naturals of unbounded  *)
(* size, kept as little-endian sequences of limbs, so that no product of   *)
(* probabilities overflows.  Rationals are compared by cross               *)
(* multiplication and are never reduced.                                   *)
(***************************************************************************)
EXTENDS Integers, Sequences, FiniteSets, TLC

\* ------------------------------------------------------------------------
\* Unbounded naturals
\* ------------------------------------------------------------------------

\* One limb holds a value in 0 .. Base-1.
Base == 100 * 100

\* A natural as a little-endian sequence of limbs (zero is the empty one).
Big == Seq(Nat)

\* The natural n as a limb sequence.
BigOf[n \in Nat] == IF n = 0 THEN <<>> ELSE <<n % Base>> \o BigOf[n \div Base]

BigZero == <<>>
BigOne == <<1>>

\* Drop the zero limbs at the most significant end.
BNorm[a \in Big] ==
    IF a = <<>> THEN <<>>
    ELSE IF a[Len(a)] = 0 THEN BNorm[SubSeq(a, 1, Len(a) - 1)]
    ELSE a

\* The limb of a at position 1, zero past the end.
Limb(a) == IF a = <<>> THEN 0 ELSE Head(a)
\* The limbs of a after position 1.
Rest(a) == IF a = <<>> THEN <<>> ELSE Tail(a)

\* a + b + c for a carry c.
BAddC[a \in Big, b \in Big, c \in Nat] ==
    IF a = <<>> /\ b = <<>> THEN (IF c = 0 THEN <<>> ELSE <<c>>)
    ELSE <<(Limb(a) + Limb(b) + c) % Base>>
            \o BAddC[Rest(a), Rest(b), (Limb(a) + Limb(b) + c) \div Base]

BAdd[a \in Big, b \in Big] == BAddC[a, b, 0]

\* a - b - c for a borrow c, a >= b + c, not normalised.
BSubC[a \in Big, b \in Big, c \in Nat] ==
    IF a = <<>> THEN <<>>
    ELSE IF Head(a) - Limb(b) - c < 0
    THEN <<Head(a) - Limb(b) - c + Base>> \o BSubC[Tail(a), Rest(b), 1]
    ELSE <<Head(a) - Limb(b) - c>> \o BSubC[Tail(a), Rest(b), 0]

\* a - b for a >= b.
BSub[a \in Big, b \in Big] == BNorm[BSubC[a, b, 0]]

\* a * k + c for one limb k.
BMulSmall[a \in Big, k \in Nat, c \in Nat] ==
    IF a = <<>> THEN (IF c = 0 THEN <<>> ELSE <<c>>)
    ELSE <<(Head(a) * k + c) % Base>>
            \o BMulSmall[Tail(a), k, (Head(a) * k + c) \div Base]

\* a * Base.
BShift[a \in Big] == IF a = <<>> THEN <<>> ELSE <<0>> \o a

BMul[a \in Big, b \in Big] ==
    IF a = <<>> \/ b = <<>> THEN <<>>
    ELSE IF a = <<1>> THEN b
    ELSE IF b = <<1>> THEN a
    ELSE BAdd[BNorm[BMulSmall[a, Head(b), 0]], BShift[BMul[a, Tail(b)]]]

\* The comparison of two naturals of the same length from limb i down.
BCmpFrom[a \in Big, b \in Big, i \in Nat] ==
    IF i = 0 THEN 0
    ELSE IF a[i] < b[i] THEN -1
    ELSE IF a[i] > b[i] THEN 1
    ELSE BCmpFrom[a, b, i - 1]

\* -1, 0 or 1 as a < b, a = b, a > b.
BCmp[a \in Big, b \in Big] ==
    IF Len(a) < Len(b) THEN -1
    ELSE IF Len(a) > Len(b) THEN 1
    ELSE BCmpFrom[a, b, Len(a)]

\* ------------------------------------------------------------------------
\* Rationals
\* ------------------------------------------------------------------------

\* A rational is sign, numerator and denominator (zero is never negative).
Rat == [neg : BOOLEAN, num : Big, den : Big]

\* The rational n/d of two naturals, d > 0.
R(n, d) == [neg |-> FALSE, num |-> BigOf[n], den |-> BigOf[d]]

RZero == R(0, 1)
ROne == R(1, 1)

RIsZero(x) == x.num = <<>>

\* The rational of sign s, numerator n and denominator d.
Signed[s \in BOOLEAN, n \in Big, d \in Big] ==
    [neg |-> s /\ (n # <<>>), num |-> n, den |-> d]

RNeg[x \in Rat] == Signed[~x.neg, x.num, x.den]

RMul[x \in Rat, y \in Rat] ==
    Signed[x.neg # y.neg, BMul[x.num, y.num], BMul[x.den, y.den]]

\* x / y for y # 0.
RDiv[x \in Rat, y \in Rat] ==
    Signed[x.neg # y.neg, BMul[x.num, y.den], BMul[x.den, y.num]]

\* a/d of sign xneg plus b/d of sign yneg.
AddParts[xneg \in BOOLEAN, yneg \in BOOLEAN, a \in Big, b \in Big, d \in Big] ==
    IF xneg = yneg THEN Signed[xneg, BAdd[a, b], d]
    ELSE IF BCmp[a, b] >= 0 THEN Signed[xneg, BSub[a, b], d]
    ELSE Signed[yneg, BSub[b, a], d]

RAdd[x \in Rat, y \in Rat] ==
    AddParts[x.neg, y.neg, BMul[x.num, y.den], BMul[y.num, x.den],
             BMul[x.den, y.den]]

RSub[x \in Rat, y \in Rat] == RAdd[x, RNeg[y]]

\* -1, 0 or 1 as x is negative, zero, positive.
RSign[x \in Rat] == IF x.num = <<>> THEN 0 ELSE IF x.neg THEN -1 ELSE 1

\* -1, 0 or 1 as x < y, x = y, x > y.
RCmp[x \in Rat, y \in Rat] == RSign[RSub[x, y]]

REq(x, y) == RCmp[x, y] = 0
RLt(x, y) == RCmp[x, y] < 0
RLe(x, y) == RCmp[x, y] <= 0

\* x ** k for a natural k.
RPowInt[x \in Rat, k \in Nat] == IF k = 0 THEN ROne ELSE RMul[x, RPowInt[x, k - 1]]

RMin[x \in Rat, y \in Rat] == IF RLe(x, y) THEN x ELSE y

\* Largest integer RFloorAbs and RoundHalfEvenAbs search up to: the texts
\* the program formats are probabilities in hundredths.
MaxQuotient == 100

\* The largest k in lo .. hi with k * d <= n, given lo * d <= n.
FloorSearch[n \in Big, d \in Big, lo \in Nat, hi \in Nat] ==
    IF lo = hi THEN lo
    ELSE IF BCmp[BMul[BigOf[(lo + hi + 1) \div 2], d], n] <= 0
    THEN FloorSearch[n, d, (lo + hi + 1) \div 2, hi]
    ELSE FloorSearch[n, d, lo, ((lo + hi + 1) \div 2) - 1]

\* floor(|x|) as an integer (at most MaxQuotient).
RFloorAbs[x \in Rat] == FloorSearch[x.num, x.den, 0, MaxQuotient]

\* f or f + 1 as twice the remainder compares (c) with the denominator, a
\* tie going to the even neighbour.
TieBreak[f \in Nat, c \in Int] ==
    IF c < 0 THEN f
    ELSE IF c > 0 THEN f + 1
    ELSE IF f % 2 = 0 THEN f ELSE f + 1

\* |x| rounded to the nearest integer given its floor f.
RoundFrom[x \in Rat, f \in Nat] ==
    TieBreak[f, BCmp[BMul[BigOf[2], BSub[x.num, BMul[BigOf[f], x.den]]], x.den]]

\* |x| rounded to the nearest integer, a tie going to the even neighbour.
RoundHalfEvenAbs[x \in Rat] == RoundFrom[x, RFloorAbs[x]]

\* The hundredths round(x, 2) may give for a float that stands for x >= 0,
\* given f = floor(100 x) and how twice the remainder compares (c) with the
\* denominator: the nearest one, and either neighbour when x lies exactly
\* halfway, where the float may lie on either side of x.
RoundChoices[f \in Nat, c \in Int] ==
    IF c < 0 THEN {f} ELSE IF c > 0 THEN {f + 1} ELSE {f, f + 1}

\* RoundChoices for the rational x of floor f.
RoundChoicesFrom[x \in Rat, f \in Nat] ==
    RoundChoices[f, BCmp[BMul[BigOf[2], BSub[x.num, BMul[BigOf[f], x.den]]], x.den]]

\* round(x, 2) in hundredths for 0 <= x <= 1: the set of values it may give.
round2[x \in Rat] == RoundChoicesFrom[RMul[x, R(100, 1)], RFloorAbs[RMul[x, R(100, 1)]]]

\* ------------------------------------------------------------------------
\* shared_functions.py
\* ------------------------------------------------------------------------

\* f"{value:.2f}": the text of a number with two decimals, kept as the signed
\* number of hundredths it shows.
Format2f[value \in Rat] ==
    IF value.neg THEN 0 - RoundHalfEvenAbs[RMul[value, R(100, 1)]]
    ELSE RoundHalfEvenAbs[RMul[value, R(100, 1)]]

\* update_result_button: the text the button shows for value (the colour of
\* the button is presentation and is not modelled).
update_result_button(value) == Format2f[RMin[value, ROne]]

\* ------------------------------------------------------------------------
\* import_devices_ui.py: the device resilience model
\* ------------------------------------------------------------------------

\* A vulnerability of deviceInfoList is <<cve_info, status>> with
\* cve_info = <<id, exploitability, impact>>; the exploitability score is
\* kept in hundredths (3.9 is 390), as the spin box and the NVD give it.
CveId(cve) == cve[1][1]
CveExploit(cve) == cve[1][2]
CveImpact(cve) == cve[1][3]
CveStatus(cve) == cve[2]

\* The exploitability score as a number.
Score(e) == R(e, 100)

\* Default b_d of calculate_resilience.
DefaultBd == R(3, 100)
\* Default c_w of calculate_resilience.
DefaultCw == 2

\* The shapes of the collection: a vulnerability, a list of them, and what
\* the arithmetic yields (a number, or the exception raised instead).
CveInfo == STRING \X Nat \X STRING
Cve == CveInfo \X BOOLEAN
CveSeq == Seq(Cve)

\* The local quantizedExploit before its first assignment; reading it raises
\* UnboundLocalError.
Unbound == [err |-> "UnboundLocalError"]
IsError(x) == "err" \in DOMAIN x
RatOrError == Rat \cup {Unbound}

\* QuantizedExploit with the LOW branch carrying the weight of the NONE
\* branch.
QuantizedExploit_LowAsNone(exploit, impact, c_w, before) ==
    IF impact = "NONE"
    THEN RMul[R(1, 10), RPowInt[RDiv[Score(exploit), R(39, 10)], c_w]]
    ELSE IF impact = "LOW"
    THEN RMul[R(1, 10), RPowInt[RDiv[Score(exploit), R(39, 10)], c_w]]
    ELSE IF impact = "HIGH"
    THEN RMul[R(10, 10), RPowInt[RDiv[Score(exploit), R(39, 10)], c_w]]
    ELSE before

\* QuantizedExploit with exploit // 3.9 in place of exploit / 3.9.
QuantizedExploit_FloorDivision(exploit, impact, c_w, before) ==
    IF impact = "NONE" THEN RMul[R(1, 10), RPowInt[R(exploit \div 390, 1), c_w]]
    ELSE IF impact = "LOW" THEN RMul[R(3, 10), RPowInt[R(exploit \div 390, 1), c_w]]
    ELSE IF impact = "HIGH" THEN RMul[R(10, 10), RPowInt[R(exploit \div 390, 1), c_w]]
    ELSE before

\* The if/elif chain of calculate_resilience: quantizedExploit after it, given
\* its value before (an impact outside the three names assigns nothing).
QuantizedExploit(exploit, impact, c_w, before) ==
    IF impact = "NONE"
    THEN RMul[R(1, 10), RPowInt[RDiv[Score(exploit), R(39, 10)], c_w]]
    ELSE IF impact = "LOW"
    THEN RMul[R(3, 10), RPowInt[RDiv[Score(exploit), R(39, 10)], c_w]]
    ELSE IF impact = "HIGH"
    THEN RMul[R(10, 10), RPowInt[RDiv[Score(exploit), R(39, 10)], c_w]]
    ELSE before

\* The locals <<deviceResilience, quantizedExploit>> after the statement
\* deviceResilience *= (1 - quantizedExploit); reading quantizedExploit
\* unassigned raises, which leaves Unbound for deviceResilience.
Discount[deviceResilience \in Rat, quantizedExploit \in RatOrError] ==
    IF IsError(quantizedExploit) THEN <<Unbound, Unbound>>
    ELSE <<RMul[deviceResilience, RSub[ROne, quantizedExploit]], quantizedExploit>>

\* The local variables <<deviceResilience, quantizedExploit>> of
\* calculate_resilience.
Locals == RatOrError \X RatOrError

\* The for loop of calculate_resilience from entry i on, given the locals
\* <<deviceResilience, quantizedExploit>>: deviceResilience after the loop,
\* or Unbound when an entry reads quantizedExploit unassigned.
ResilienceLoop[cves \in CveSeq, i \in Nat, locals \in Locals, c_w \in Nat] ==
    IF IsError(locals[1]) \/ i > Len(cves) THEN locals[1]
    ELSE IF ~CveStatus(cves[i]) THEN ResilienceLoop[cves, i + 1, locals, c_w]
    ELSE ResilienceLoop[cves, i + 1,
             Discount[locals[1],
                      QuantizedExploit(CveExploit(cves[i]), CveImpact(cves[i]),
                                       c_w, locals[2])],
             c_w]

\* b_d + (1 - b_d) * (1 - deviceResilience), or the exception of the loop.
DeviceCompromise[b_d \in Rat, deviceResilience \in RatOrError] ==
    IF IsError(deviceResilience) THEN deviceResilience
    ELSE RAdd[b_d, RMul[RSub[ROne, b_d], RSub[ROne, deviceResilience]]]

\* calculate_resilience without the test of status: every entry counts.
calculate_resilience3_CountingDisabled(cves, b_d, c_w) ==
    DeviceCompromise[b_d,
        ResilienceLoop[[k \in 1 .. Len(cves) |-> <<cves[k][1], TRUE>>], 1,
                       <<ROne, Unbound>>, c_w]]

\* calculate_resilience returning 1 - deviceResilience, without b_d.
calculate_resilience3_NoBaseRate(cves, b_d, c_w) ==
    DeviceCompromise[RZero, ResilienceLoop[cves, 1, <<ROne, Unbound>>, c_w]]

\* calculate_resilience(cves, b_d, c_w).
calculate_resilience3(cves, b_d, c_w) ==
    DeviceCompromise[b_d, ResilienceLoop[cves, 1, <<ROne, Unbound>>, c_w]]

\* calculate_resilience with the default b_d written 0.3.
calculate_resilience_TenfoldBase(cves) == calculate_resilience3(cves, R(3, 10), DefaultCw)

\* calculate_resilience(cves) with the default b_d and c_w.
calculate_resilience(cves) == calculate_resilience3(cves, DefaultBd, DefaultCw)

\* The comprehension of get_import_values that keeps the active entries.
ActiveCves(cves) == SelectSeq(cves, LAMBDA c : CveStatus(c))

\* overallResilience *= (1 - deviceCompromise), or the exception
\* calculate_resilience raised.
Survive[overallResilience \in Rat, deviceCompromise \in RatOrError] ==
    IF IsError(deviceCompromise) THEN deviceCompromise
    ELSE RMul[overallResilience, RSub[ROne, deviceCompromise]]

\* The values deviceInfoList takes: (cpe name, entries) pairs.
DeviceInfoList == Seq(STRING \X CveSeq)

\* The second loop of get_import_values from device i on: overallResilience
\* after it, or the error calculate_resilience raised.
OverallLoop[list \in DeviceInfoList, i \in Nat, overallResilience \in RatOrError] ==
    IF IsError(overallResilience) \/ i > Len(list) THEN overallResilience
    ELSE OverallLoop[list, i + 1,
             Survive[overallResilience,
                     calculate_resilience(ActiveCves(list[i][2]))]]

\* The return value (totalCompromise, True) of get_import_values, or the
\* error of its loop.
ImportValues[overallResilience \in RatOrError] ==
    IF IsError(overallResilience) THEN overallResilience
    ELSE [totalCompromise |-> RSub[ROne, overallResilience], isNotEmpty |-> TRUE]

\* get_import_values assigning overallResilience = 1 - deviceCompromise in
\* its loop: only the last device counts.
get_import_values_LastDeviceOnly(list) ==
    IF list = <<>> THEN [totalCompromise |-> RZero, isNotEmpty |-> FALSE]
    ELSE ImportValues[OverallLoop[<<list[Len(list)]>>, 1, ROne]]

\* get_import_values without the test for the empty collection.
get_import_values_NoEmptyCheck(list) == ImportValues[OverallLoop[list, 1, ROne]]

\* What get_import_values returns for the collection list: the pair
\* (totalCompromise, True), (0, False) for the empty collection, or the error
\* it raised.
get_import_values(list) ==
    IF list = <<>> THEN [totalCompromise |-> RZero, isNotEmpty |-> FALSE]
    ELSE ImportValues[OverallLoop[list, 1, ROne]]

\* What get_import_values may return.
ImportResult == [totalCompromise : Rat, isNotEmpty : BOOLEAN] \cup {Unbound}

\* update_pve_alt_button(totalCompromise): the text of totalCompromiseDisplay.
update_pve_alt_button(totalCompromise) == update_result_button(totalCompromise)

\* The text of totalCompromiseDisplay after get_import_values returned r,
\* given the text before: update_pve_alt_button is reached only when the
\* collection is not empty and no error was raised.
DisplayOf[r \in ImportResult, before \in Int] ==
    IF IsError(r) THEN before
    ELSE IF ~r.isNotEmpty THEN before
    ELSE update_pve_alt_button(r.totalCompromise)

\* What totalCompromiseDisplay shows after get_import_values ran on list,
\* given what it showed before.
DisplayAfterImportValues(list, before) ==
    DisplayOf[get_import_values(list), before]

\* ------------------------------------------------------------------------
\* nvd.py: the lookup, over a fixed catalogue standing for the NVD
\* ------------------------------------------------------------------------

\* Default time the search waits for a lookup thread, in seconds.
timeoutTimer == 5

\* len(cpeTerm) == 1.
OneChar(term) == term \in {"x"}

\* "firmware" in cpe.cpeName.
IsFirmware(cpeName) == cpeName \in {"cpe:hmi_firmware"}

\* search_nvd_cpe(term): the cpeNames the NVD holds for a search term.
search_nvd_cpe(term) ==
    IF term = "plc" THEN <<"cpe:plc">>
    ELSE IF term = "hmi" THEN <<"cpe:hmi_firmware", "cpe:hmi">>
    ELSE <<>>

\* One CVE item of the NVD: its id, whether it was published within the last
\* ten years, and its metrics (a missing metric list is empty; scores are in
\* hundredths).
CveItem(id, recent, v31, v30, v2) ==
    [id |-> id, recent |-> recent, cvssMetricV31 |-> v31, cvssMetricV30 |-> v30,
     cvssMetricV2 |-> v2]

Metric(score, impact) == [exploitabilityScore |-> score, confidentialityImpact |-> impact]

\* search_nvd(cpe): the CVE items the NVD holds for a cpeName.
search_nvd(cpe) ==
    IF cpe = "cpe:plc"
    THEN << CveItem("CVE-N1", TRUE, <<Metric(280, "HIGH")>>, <<>>, <<>>),
            CveItem("CVE-N0", FALSE, <<Metric(390, "HIGH")>>, <<>>, <<>>),
            CveItem("CVE-N2", TRUE, <<>>, <<Metric(180, "LOW")>>, <<>>) >>
    ELSE IF cpe = "cpe:hmi"
    THEN << CveItem("CVE-N3", TRUE, <<>>, <<>>, <<Metric(1000, "PARTIAL")>>),
            CveItem("CVE-N5", TRUE, <<>>, <<>>, <<>>) >>
    ELSE IF cpe = "cpe:hmi_firmware"
    THEN << CveItem("CVE-N4", TRUE, <<>>, <<>>, <<>>) >>
    ELSE <<>>

\* get_latest_cve_list.
get_latest_cve_list(cveList) == SelectSeq(cveList, LAMBDA cve : cve.recent)

\* The first metric of the item in the order V31, V30, V2, or <<>>.
FirstMetric(cveItem) ==
    IF cveItem.cvssMetricV31 # <<>> THEN <<cveItem.cvssMetricV31[1]>>
    ELSE IF cveItem.cvssMetricV30 # <<>> THEN <<cveItem.cvssMetricV30[1]>>
    ELSE IF cveItem.cvssMetricV2 # <<>> THEN <<cveItem.cvssMetricV2[1]>>
    ELSE <<>>

\* get_confidentiality_impact_cve (the integer 0 it returns for an item
\* without metrics is written "0").
get_confidentiality_impact_cve(cveItem) ==
    IF FirstMetric(cveItem) = <<>> THEN "0"
    ELSE FirstMetric(cveItem)[1].confidentialityImpact

\* get_exploitability_score_cve.
get_exploitability_score_cve(cveItem) ==
    IF FirstMetric(cveItem) = <<>> THEN 0
    ELSE FirstMetric(cveItem)[1].exploitabilityScore

\* n copies of the one-element list <<x>>: [x] * n.
RECURSIVE Repeat(_, _)
Repeat(x, n) == IF n <= 0 THEN <<>> ELSE <<x>> \o Repeat(x, n - 1)

RECURSIVE ClassifyTerms(_, _, _, _, _, _)
\* The first loop of search_plc_info_nvd from term idx on.  timedOut holds
\* the indices whose lookup thread did not finish within timeoutTimer, picks
\* the operator's choice in choose_which_cpe ("None" for no selection); acc
\* holds officialCPE, notFoundDevices and refineSearchDevices so far.
ClassifyTerms(searchTermList, refinedSearch, timedOut, picks, idx, acc) ==
    IF idx > Len(searchTermList) THEN acc
    ELSE LET cpeTerm == searchTermList[idx][1]
             count == searchTermList[idx][2]
             found == search_nvd_cpe(cpeTerm)
             cpeList == IF refinedSearch THEN found
                        ELSE SelectSeq(found, LAMBDA c : ~IsFirmware(c))
             refine == [acc EXCEPT !.refineSearchDevices = Append(@, cpeTerm)]
             missing == [acc EXCEPT !.notFoundDevices = Append(@, cpeTerm)]
             next ==
                 IF OneChar(cpeTerm) THEN refine
                 ELSE IF idx \in timedOut THEN refine
                 ELSE IF Len(cpeList) = 0 THEN missing
                 ELSE IF Len(cpeList) = 1 \/ ~refinedSearch
                 THEN [acc EXCEPT !.officialCPE = Append(@, <<cpeList[1], count>>)]
                 ELSE IF picks[idx] # "None"
                 THEN [acc EXCEPT !.officialCPE = Append(@, <<picks[idx], count>>)]
                 ELSE missing
         IN  ClassifyTerms(searchTermList, refinedSearch, timedOut, picks, idx + 1, next)

RECURSIVE CpeCveList(_, _)
\* The second loop of search_plc_info_nvd from entry i of officialCPE on.
CpeCveList(officialCPE, i) ==
    IF i > Len(officialCPE) THEN <<>>
    ELSE LET cpe == officialCPE[i][1]
             refinedCVEList == get_latest_cve_list(search_nvd(cpe))
             entry == <<cpe, [k \in 1 .. Len(refinedCVEList) |->
                                  <<refinedCVEList[k], TRUE>>]>>
         IN  Repeat(entry, officialCPE[i][2]) \o CpeCveList(officialCPE, i + 1)

RECURSIVE CpeCveObjects(_, _, _)
\* The list objects of the entries of CpeCveList from entry i of officialCPE
\* on.  [(cpe, [...])] * count repeats one tuple, so the count entries of a
\* product hold one and the same list of CVEs: each entry is given the
\* position of the first entry that holds its list, which is `first` for
\* the entries of officialCPE[i].
CpeCveObjects(officialCPE, i, first) ==
    IF i > Len(officialCPE) THEN <<>>
    ELSE Repeat(first, officialCPE[i][2])
         \o CpeCveObjects(officialCPE, i + 1, first + officialCPE[i][2])

\* search_plc_info_nvd: the module globals after the pass, whether the
\* not-found popup was shown, and the list returned with its list objects.
search_plc_info_nvd(searchTermList, refinedSearch, timedOut, picks) ==
    LET globals == ClassifyTerms(searchTermList, refinedSearch, timedOut, picks, 1,
                       [officialCPE |-> <<>>, notFoundDevices |-> <<>>,
                        refineSearchDevices |-> <<>>])
    IN  [globals |-> globals,
         popup |-> globals.notFoundDevices # <<>> \/ globals.refineSearchDevices # <<>>,
         cpe_cve_list |-> CpeCveList(globals.officialCPE, 1),
         objects |-> CpeCveObjects(globals.officialCPE, 1, 1)]

\* ------------------------------------------------------------------------
\* parameters_ui.py: the scorers and the time window
\* ------------------------------------------------------------------------

\* categoryList of impact_categories, in order.
categoryList == <<"Operational", "Safety", "Financial", "Privacy and Legislative">>

\* The names of categoryList.
Categories == {categoryList[i] : i \in 1 .. Len(categoryList)}

\* severityList of impact_categories: the score of a label, in hundredths.
ImpactSeverity(label) ==
    IF label = "None" THEN 0
    ELSE IF label = "Low" THEN 30
    ELSE IF label = "Medium" THEN 60
    ELSE IF label = "High" THEN 100
    ELSE 200

\* severityList of information_rate_categories: the value of a label.
InformationSeverity(label) ==
    IF label = "Low" THEN 1 ELSE IF label = "Medium" THEN 2 ELSE 3

\* severityList of policy_categories with the scores of None and High not
\* exchanged: the score grows with the strength.
PolicySeverity_Direct(label) ==
    IF label = "None" THEN 10
    ELSE IF label = "Low" THEN 45
    ELSE IF label = "Medium" THEN 75
    ELSE 100

\* severityList of policy_categories: the score of a label, in hundredths.
PolicySeverity(label) ==
    IF label = "None" THEN 100
    ELSE IF label = "Low" THEN 75
    ELSE IF label = "Medium" THEN 45
    ELSE 10

RECURSIVE DisplayRows(_, _)
\* The loop of display_results from button group idx on.  buttonGroupsList
\* holds, per button group, the items in order with the text and the
\* severity_value of the checked button of each: <<item, label, value>>.
DisplayRows(buttonGroupsList, idx) ==
    IF idx > Len(buttonGroupsList) THEN <<>>
    ELSE [k \in 1 .. Len(buttonGroupsList[idx]) |->
             <<idx, buttonGroupsList[idx][k][1], buttonGroupsList[idx][k][2],
               buttonGroupsList[idx][k][3]>>]
         \o DisplayRows(buttonGroupsList, idx + 1)

\* display_results: returnValue, the entries [group, item, label, value].
display_results(buttonGroupsList) == DisplayRows(buttonGroupsList, 1)

\* The button groups of the impact panel for the checked buttons.
ImpactButtonGroups(buttons) ==
    [g \in 1 .. 2 |->
        [k \in 1 .. Len(categoryList) |->
            <<categoryList[k], buttons[categoryList[k]][g],
              ImpactSeverity(buttons[categoryList[k]][g])>>]]

\* The button group of the information panel for the checked buttons
\* <<Data Rate, Publishers>>.
InformationButtonGroups(buttons) ==
    << << <<"Data Rate", buttons[1], InformationSeverity(buttons[1])>>,
          <<"Publishers", buttons[2], InformationSeverity(buttons[2])>> >> >>

\* The button group of the policy panel for the checked button.
PolicyButtonGroups(label) ==
    << << <<"Policy Strength", label, PolicySeverity(label)>> >> >>

RECURSIVE CategoryProduct(_, _)
\* The product update_impact_layout forms of the scores of one category, the
\* scores of the entries in hundredths.
CategoryProduct(returnValue, category) ==
    IF returnValue = <<>> THEN ROne
    ELSE IF Head(returnValue)[2] = category
    THEN RMul[R(Head(returnValue)[4], 100), CategoryProduct(Tail(returnValue), category)]
    ELSE CategoryProduct(Tail(returnValue), category)

RECURSIVE SumOfProducts(_, _)
\* sum(multiplied_scores) over a set of categories.
SumOfProducts(returnValue, cats) ==
    IF cats = {} THEN RZero
    ELSE LET c == CHOOSE x \in cats : TRUE
         IN  RAdd[CategoryProduct(returnValue, c), SumOfProducts(returnValue, cats \ {c})]

\* The keys of category_scores.
CategoryScores(returnValue) == {returnValue[i][2] : i \in 1 .. Len(returnValue)}

\* impactExtent as the sum of the products, not divided by their number.
ImpactExtent_Sum(returnValue) ==
    IF returnValue = <<>> THEN RZero
    ELSE SumOfProducts(returnValue, CategoryScores(returnValue))

\* impactExtent of update_impact_layout before it is clamped: the mean over
\* the categories of the product of their scores, 0 without any entry.
ImpactExtent(returnValue) ==
    IF returnValue = <<>> THEN RZero
    ELSE RDiv[SumOfProducts(returnValue, CategoryScores(returnValue)),
              R(Cardinality(CategoryScores(returnValue)), 1)]

\* What update_impact_layout stores in values.impact, in hundredths:
\* round(min(impactExtent, 1), 2).
StoredImpact(returnValue) == round2[RMin[ImpactExtent(returnValue), ROne]]

\* severityMap of map_information_rate_categories.
severityMap == [level \in {"Low", "Medium", "High"} |->
                   IF level = "Low" THEN 0 ELSE IF level = "Medium" THEN 1 ELSE 2]

\* chart of map_information_rate_categories, the values in hundredths.
chart ==
    << << <<"Very Low", 10>>, <<"Low", 30>>, <<"Moderate", 75>> >>,
       << <<"Low", 30>>, <<"Moderate", 75>>, <<"High", 90>> >>,
       << <<"Moderate", 75>>, <<"High", 90>>, <<"Very High", 100>> >> >>

\* map_information_rate_categories reading row 0 of chart whatever the
\* publishers level is.
map_information_rate_categories_FirstRow(returnValue) ==
    IF Len(returnValue) < 2 THEN <<"Incomplete data">>
    ELSE IF returnValue[1][3] \notin DOMAIN severityMap
            \/ returnValue[2][3] \notin DOMAIN severityMap
    THEN <<"Invalid severity level">>
    ELSE chart[1][severityMap[returnValue[1][3]] + 1]

\* map_information_rate_categories(returnValue): the entry [label, value] of
\* chart, or one of its two messages; a message, a str in the source, is
\* kept as a list of one text.
map_information_rate_categories(returnValue) ==
    IF Len(returnValue) < 2 THEN <<"Incomplete data">>
    ELSE IF returnValue[1][3] \notin DOMAIN severityMap
            \/ returnValue[2][3] \notin DOMAIN severityMap
    THEN <<"Invalid severity level">>
    ELSE chart[severityMap[returnValue[2][3]] + 1][severityMap[returnValue[1][3]] + 1]

\* convert_to_hours(value, unit).
convert_to_hours(value, unit) ==
    IF unit = "hours" THEN value
    ELSE IF unit = "days" THEN value * 24
    ELSE value * 30 * 24

\* abs().
Abs(n) == IF n < 0 THEN 0 - n ELSE n

\* ------------------------------------------------------------------------
\* import_devices_ui.py: the handlers
\* ------------------------------------------------------------------------

\* Most devices the collection holds in the model.
MaxDevices == 2

\* str.strip() on the texts the operator types.
Strip(text) == IF text \in {"", " "} THEN "" ELSE text

\* The device names the operator types for an Individual search.
SearchNames == {"", "plc", "hmi", "zz", "x"}

\* The batch files the operator can load, each a list of lines.
GroupFiles ==
    { <<"plc", "# spare", "plc", "zz">>, <<"hmi", "x">> }

\* What the operator fills in the Add Device dialog: a name and the rows of
\* (CVE id, exploitability in hundredths, impact).
ManualNames == {"", "pump"}
ManualForms ==
    { <<>>,
      << <<"CVE-M1", 390, "HIGH">>, <<"CVE-M2", 195, "LOW">> >>,
      << <<"CVE-M3", 260, "NONE">>, <<"CVE-M6", 130, "LOW">> >>,
      << <<"", 390, "HIGH">>, <<"CVE-M4", 130, "HIGH">> >>,
      << <<"CVE-M5", 100, "LOW">>, <<"CVE-M5", 200, "LOW">> >> }

VARIABLES
    deviceInfoList,          \* import_devices_ui.deviceInfoList
    results_list,            \* the texts of the rows of the QListWidget
    results_to_device_map,   \* import_devices_ui.results_to_device_map
    cvesObject,              \* for each row, the first row whose device holds the same list of CVEs
    totalCompromiseDisplay,  \* the value the compromise button shows, in hundredths
    search_terms,            \* import_devices_ui.search_terms
    detailed_search,         \* import_devices_ui.detailed_search
    nvd,                     \* officialCPE, notFoundDevices, refineSearchDevices of nvd.py
    lookupThreads,           \* the terms with a lookup thread still running after its wait timed out
    dialogs,                 \* the message boxes the last handler showed, in order
    raised,                  \* the exception the last handler ended with, "" for none
    probabilities,           \* what the last handler printed at main.py:95, <<>> for nothing
    returnValues,            \* <<returnValue>> of the last handler if a scorer, else <<>>
    values,                  \* parameters_ui.values, its attributes in hundredths
    impact_buttons,          \* the checked button of each group of the impact panel
    information_buttons,     \* the checked buttons of Data Rate and Publishers
    time_range_1_input,      \* the spin box and the combo box of "Minimum:"
    time_range_2_input,      \* the spin box and the combo box of "Maximum:"
    timeRange1,              \* parameters_ui.timeRange1, in hours
    timeRange2,              \* parameters_ui.timeRange2, in hours
    timeDifference,          \* parameters_ui.timeDifference
    show_message_box,        \* main.show_message_box
    results_text_box,        \* the text of main.results_text_box, <<>> while empty
    cryptoperiod             \* <<hours>> the text was made from, <<>> while empty

\* The state of the import panel.
importVars == <<deviceInfoList, cvesObject, results_list, results_to_device_map,
                totalCompromiseDisplay, search_terms, detailed_search, nvd, lookupThreads>>

\* The sliders, scorers and globals of parameters_ui.py.
parameterVars == <<values, impact_buttons, information_buttons, time_range_1_input,
                   time_range_2_input, timeRange1, timeRange2, timeDifference>>

\* The globals of main.py.
mainVars == <<show_message_box, results_text_box, cryptoperiod>>

vars == <<importVars, dialogs, raised, probabilities, returnValues, parameterVars, mainVars>>

\* The state after the modules are loaded and create_main_window has run:
\* setup_import_devices shows 0.00, setup_top_right sets the window to 1 day
\* and 12 months (timeRange2 is still 1 when the first input is created, and
\* timeDifference is recomputed when the second is), and the impact and
\* information panels run their update once on the default buttons.
Init ==
    /\ deviceInfoList = <<>>
    /\ results_list = <<>>
    /\ results_to_device_map = <<>>
    /\ cvesObject = <<>>
    /\ totalCompromiseDisplay = update_result_button(RZero)
    /\ search_terms = <<>>
    /\ detailed_search = FALSE
    /\ nvd = [officialCPE |-> <<>>, notFoundDevices |-> <<>>, refineSearchDevices |-> <<>>]
    /\ lookupThreads = {}
    /\ dialogs = <<>>
    /\ raised = ""
    /\ probabilities = <<>>
    /\ returnValues = <<>>
    /\ impact_buttons = [c \in Categories |-> <<"None", "None">>]
    /\ information_buttons = <<"Low", "Low">>
    /\ values \in
           {[impact |-> impact,
             information |-> map_information_rate_categories(
                                 display_results(InformationButtonGroups(<<"Low", "Low">>)))[2],
             policy |-> 100] :
               impact \in StoredImpact(display_results(ImpactButtonGroups(
                              [c \in Categories |-> <<"None", "None">>])))}
    /\ time_range_1_input = [value |-> 1, unit |-> "days"]
    /\ time_range_2_input = [value |-> 12, unit |-> "months"]
    /\ timeRange1 = convert_to_hours(1, "days")
    /\ timeRange2 = convert_to_hours(12, "months")
    /\ timeDifference = Abs(convert_to_hours(12, "months") - convert_to_hours(1, "days"))
    /\ show_message_box = TRUE
    /\ results_text_box = <<>>
    /\ cryptoperiod = <<>>

\* toggle_detailed_search.
toggle_detailed_search(state) ==
    /\ detailed_search' = state
    /\ dialogs' = <<>>
    /\ UNCHANGED <<deviceInfoList, cvesObject, results_list, results_to_device_map,
                   totalCompromiseDisplay, search_terms, nvd, lookupThreads>>

RECURSIVE CountLines(_, _)
\* The search_term_counts of handle_group_file_load as the list of its items
\* in insertion order.
CountLines(lines, counts) ==
    IF lines = <<>> THEN counts
    ELSE LET line == Head(lines)
             at == {k \in 1 .. Len(counts) : counts[k][1] = Strip(line)}
         IN  IF line \in {"# spare"} THEN CountLines(Tail(lines), counts)
             ELSE IF at # {}
             THEN CountLines(Tail(lines),
                      [k \in 1 .. Len(counts) |->
                          IF k \in at THEN <<counts[k][1], counts[k][2] + 1>>
                          ELSE counts[k]])
             ELSE CountLines(Tail(lines), Append(counts, <<Strip(line), 1>>))

\* handle_group_file_load: the operator picks a file, or cancels the dialog.
handle_group_file_load(picked, lines) ==
    /\ search_terms' = IF picked THEN CountLines(lines, <<>>) ELSE search_terms
    /\ dialogs' = <<>>
    /\ UNCHANGED <<deviceInfoList, cvesObject, results_list, results_to_device_map,
                   totalCompromiseDisplay, detailed_search, nvd, lookupThreads>>

\* The cve_info with the confidentiality impact as the lookup returned it.
StoredCve_AsReturned(entry) ==
    LET cve == entry[1]
    IN  <<<<cve.id, get_exploitability_score_cve(cve),
            get_confidentiality_impact_cve(cve)>>, entry[2]>>

\* The cve_info handle_search stores for a CVE item of the lookup.
StoredCve(entry) ==
    LET cve == entry[1]
        raw == get_confidentiality_impact_cve(cve)
        confidentiality_impact == IF raw \notin {"NONE", "LOW", "HIGH"} THEN "NONE" ELSE raw
    IN  <<<<cve.id, get_exploitability_score_cve(cve), confidentiality_impact>>, entry[2]>>

\* updated_device_info_list of handle_search.
UpdatedDeviceInfoList(new_device_info_list) ==
    [d \in 1 .. Len(new_device_info_list) |->
        <<new_device_info_list[d][1],
          [k \in 1 .. Len(new_device_info_list[d][2]) |->
              StoredCve(new_device_info_list[d][2][k])]>>]

\* The list objects of updated_device_info_list once it is appended to a
\* collection of `held` devices: updated_cves is a list of its own for every
\* entry of the pass, whichever list the entry came with.
UpdatedObjects_AsReturned(objects, held) ==
    [d \in 1 .. Len(objects) |-> held + objects[d]]

UpdatedObjects(objects, held) == [d \in 1 .. Len(objects) |-> held + d]

\* The texts of the rows handle_search builds from the collection.
RowsOf(list) == [i \in 1 .. Len(list) |-> list[i][1]]

\* handle_search(source, results_list, device_name_edit).  lookupFails: the
\* CVE lookup of the pass raises, which the handler's except clause reports.
\* running: the indices among timedOut whose lookup thread is still running
\* when the handler returns.
handle_search(source, device_name_text, timedOut, picks, lookupFails, running) ==
    IF source = "Individual" /\ Strip(device_name_text) = ""
    THEN /\ dialogs' = <<"Please fill in the device name.">>
         /\ UNCHANGED <<deviceInfoList, cvesObject, results_list, results_to_device_map,
                        totalCompromiseDisplay, search_terms, detailed_search, nvd, lookupThreads>>
    ELSE \E terms \in {IF source = "Individual" THEN <<<<Strip(device_name_text), 1>>>>
                       ELSE search_terms} :
         \E pass \in {search_plc_info_nvd(terms, detailed_search, timedOut, picks)} :
         \E list \in {deviceInfoList \o UpdatedDeviceInfoList(pass.cpe_cve_list)} :
             /\ Len(list) <= MaxDevices
             /\ running \subseteq {i \in timedOut \cap DOMAIN terms : ~OneChar(terms[i][1])}
             /\ search_terms' = terms
             /\ nvd' = pass.globals
             /\ lookupThreads' = lookupThreads \cup {terms[i][1] : i \in running}
             /\ UNCHANGED detailed_search
             /\ IF lookupFails /\ pass.globals.officialCPE # <<>>
                THEN /\ dialogs' = (IF pass.popup
                                    THEN <<"Devices Not Found or Need Refinement">>
                                    ELSE <<>>) \o <<"An error occurred during search">>
                     /\ UNCHANGED <<deviceInfoList, cvesObject, results_list, results_to_device_map,
                                    totalCompromiseDisplay>>
                ELSE \E imported \in {get_import_values(list)} :
                     /\ dialogs' = (IF pass.popup
                                    THEN <<"Devices Not Found or Need Refinement">>
                                    ELSE <<>>)
                                   \o (IF IsError(imported)
                                       THEN <<"An error occurred during search">>
                                       ELSE <<>>)
                     /\ deviceInfoList' = list
                     /\ cvesObject' = cvesObject
                                          \o UpdatedObjects(pass.objects, Len(deviceInfoList))
                     /\ results_list' = RowsOf(list)
                     /\ results_to_device_map' = RowsOf(list)
                     /\ totalCompromiseDisplay' = DisplayOf[imported, totalCompromiseDisplay]

RECURSIVE CveList_KeepsRepeats(_, _, _)
\* The loop of save_device without the test cve_id in cve_ids.
CveList_KeepsRepeats(rows, cve_ids, cve_list) ==
    IF rows = <<>> THEN <<"ok", cve_list>>
    ELSE LET cve_id == Strip(Head(rows)[1])
         IN  IF cve_id = "" THEN CveList_KeepsRepeats(Tail(rows), cve_ids, cve_list)
             ELSE CveList_KeepsRepeats(Tail(rows), cve_ids \cup {cve_id},
                      Append(cve_list, <<<<cve_id, Head(rows)[2], Head(rows)[3]>>, TRUE>>))

RECURSIVE CveList(_, _, _)
\* The loop of save_device over the rows of the dialog: the cve_list built,
\* or <<"duplicate">> when a CVE id repeats.
CveList(rows, cve_ids, cve_list) ==
    IF rows = <<>> THEN <<"ok", cve_list>>
    ELSE LET cve_id == Strip(Head(rows)[1])
         IN  IF cve_id = "" THEN CveList(Tail(rows), cve_ids, cve_list)
             ELSE IF cve_id \in cve_ids THEN <<"duplicate">>
             ELSE CveList(Tail(rows), cve_ids \cup {cve_id},
                          Append(cve_list,
                                 <<<<cve_id, Head(rows)[2], Head(rows)[3]>>, TRUE>>))

\* save_device appending the device before it looks for a repeated CVE id.
save_device_AppendsFirst(cpe_name_text, rows) ==
    LET cpe_name == Strip(cpe_name_text)
        built == CveList(rows, {}, <<>>)
    IN  IF cpe_name = ""
        THEN /\ dialogs' = <<"Please enter a CPE name.">>
             /\ UNCHANGED <<deviceInfoList, cvesObject, results_list, results_to_device_map,
                            totalCompromiseDisplay, search_terms, detailed_search, nvd, lookupThreads>>
        ELSE /\ Len(deviceInfoList) < MaxDevices
             /\ deviceInfoList' = Append(deviceInfoList, <<cpe_name, <<>>>>)
             /\ cvesObject' = Append(cvesObject, Len(deviceInfoList) + 1)
             /\ dialogs' = IF built[1] = "duplicate"
                           THEN <<"Please ensure CVE IDs have unique names.">> ELSE <<>>
             /\ UNCHANGED <<results_list, results_to_device_map,
                            totalCompromiseDisplay, search_terms, detailed_search, nvd, lookupThreads>>

\* save_device of handle_add_device: the Save button of the Add Device dialog.
save_device(cpe_name_text, rows) ==
    LET cpe_name == Strip(cpe_name_text)
        built == CveList(rows, {}, <<>>)
        list == Append(deviceInfoList, <<cpe_name, built[2]>>)
    IN  IF cpe_name = ""
        THEN /\ dialogs' = <<"Please enter a CPE name.">>
             /\ UNCHANGED <<deviceInfoList, cvesObject, results_list, results_to_device_map,
                            totalCompromiseDisplay, search_terms, detailed_search, nvd, lookupThreads>>
        ELSE IF built[1] = "duplicate"
        THEN /\ dialogs' = <<"Please ensure CVE IDs have unique names.">>
             /\ UNCHANGED <<deviceInfoList, cvesObject, results_list, results_to_device_map,
                            totalCompromiseDisplay, search_terms, detailed_search, nvd, lookupThreads>>
        ELSE /\ Len(list) <= MaxDevices
             /\ deviceInfoList' = list
             /\ cvesObject' = Append(cvesObject, Len(list))
             /\ results_list' = Append(results_list, cpe_name)
             /\ results_to_device_map' =
                    [i \in 1 .. Len(list) |->
                        IF i = Len(list) \/ i > Len(results_to_device_map) THEN cpe_name
                        ELSE results_to_device_map[i]]
             /\ totalCompromiseDisplay' =
                    DisplayAfterImportValues(list, totalCompromiseDisplay)
             /\ dialogs' = <<>>
             /\ UNCHANGED <<search_terms, detailed_search, nvd, lookupThreads>>

\* The loop of toggleCVE: the CVE list with the first entry whose id is cve_id
\* set to checked.
ToggledCves(cves, cve_id, checked) ==
    LET hits == {i \in 1 .. Len(cves) : CveId(cves[i]) = cve_id}
    IN  IF hits = {} THEN cves
        ELSE LET first == CHOOSE i \in hits : \A j \in hits : i <= j
             IN  [cves EXCEPT ![first] = <<cves[first][1], checked>>]

\* The collection after the loop of toggleCVE: the assignment to
\* deviceInfoList[idx][1][i] changes the list of row idx in place, and with
\* it the list of every row that holds the same list object.
ToggledList(idx, cve_id, checked) ==
    [d \in 1 .. Len(deviceInfoList) |->
        IF cvesObject[d] = cvesObject[idx]
        THEN <<deviceInfoList[d][1], ToggledCves(deviceInfoList[d][2], cve_id, checked)>>
        ELSE deviceInfoList[d]]

\* toggleCVE without the call of get_import_values that ends it.
toggleCVE_NoRecalculation(idx, cve_id, checked) ==
    /\ deviceInfoList' = ToggledList(idx, cve_id, checked)
    /\ dialogs' = <<>>
    /\ UNCHANGED <<cvesObject, totalCompromiseDisplay, results_list, results_to_device_map,
                   search_terms, detailed_search, nvd, lookupThreads>>

\* toggleCVE(idx, cve_id, checked) of show_cve_popup: a checkbox of the popup
\* of the device in row idx is toggled to checked.
toggleCVE(idx, cve_id, checked) ==
    LET list == ToggledList(idx, cve_id, checked)
    IN  /\ deviceInfoList' = list
        /\ totalCompromiseDisplay' = DisplayAfterImportValues(list, totalCompromiseDisplay)
        /\ dialogs' = <<>>
        /\ UNCHANGED <<cvesObject, results_list, results_to_device_map, search_terms,
                       detailed_search, nvd, lookupThreads>>

\* A sequence without its element i.
RemoveAt(seq, i) == SubSeq(seq, 1, i - 1) \o SubSeq(seq, i + 1, Len(seq))

\* The list objects of the rows left once row i is deleted, each row again
\* given the first row that holds its list.
ObjectsWithout(objects, i) ==
    LET left == RemoveAt(objects, i)
    IN  [d \in 1 .. Len(left) |->
            CHOOSE e \in 1 .. d :
                left[e] = left[d] /\ \A f \in 1 .. (e - 1) : left[f] # left[d]]

\* The Remove button without results_list.takeItem(idx).
remove_device_KeepsRow(idx, reply) ==
    LET list == RemoveAt(deviceInfoList, idx)
    IN  /\ dialogs' = <<"Remove Device">>
        /\ IF reply = "Yes"
           THEN /\ deviceInfoList' = list
                /\ cvesObject' = ObjectsWithout(cvesObject, idx)
                /\ results_to_device_map' = [i \in 1 .. Len(list) |-> results_list[i]]
                /\ totalCompromiseDisplay' =
                       DisplayAfterImportValues(list, totalCompromiseDisplay)
                /\ UNCHANGED results_list
           ELSE UNCHANGED <<deviceInfoList, cvesObject, results_list, results_to_device_map,
                            totalCompromiseDisplay>>
        /\ UNCHANGED <<search_terms, detailed_search, nvd, lookupThreads>>

\* The Remove button of show_cve_popup for the device in row idx:
\* remove_device() with the operator's reply, then get_import_values().
remove_device(idx, reply) ==
    LET list == RemoveAt(deviceInfoList, idx)
        rows == RemoveAt(results_list, idx)
    IN  /\ dialogs' = <<"Remove Device">>
        /\ IF reply = "Yes"
           THEN /\ deviceInfoList' = list
                /\ cvesObject' = ObjectsWithout(cvesObject, idx)
                /\ results_list' = rows
                /\ results_to_device_map' = [i \in 1 .. Len(list) |-> rows[i]]
                /\ totalCompromiseDisplay' =
                       DisplayAfterImportValues(list,
                           DisplayAfterImportValues(list, totalCompromiseDisplay))
           ELSE /\ totalCompromiseDisplay' =
                       DisplayAfterImportValues(deviceInfoList, totalCompromiseDisplay)
                /\ UNCHANGED <<deviceInfoList, cvesObject, results_list, results_to_device_map>>
        /\ UNCHANGED <<search_terms, detailed_search, nvd, lookupThreads>>

\* Clear Devices without the test of the reply.
clear_devices_IgnoresReply(reply) ==
    /\ dialogs' = <<"Clear All Devices">>
    /\ deviceInfoList' = <<>>
    /\ cvesObject' = <<>>
    /\ results_to_device_map' = <<>>
    /\ results_list' = <<>>
    /\ totalCompromiseDisplay' = update_result_button(RZero)
    /\ UNCHANGED <<search_terms, detailed_search, nvd, lookupThreads>>

\* The Clear Devices button: clear_devices(results_list) with the operator's
\* reply, then get_import_values().
clear_devices(reply) ==
    /\ dialogs' = <<"Clear All Devices">>
    /\ IF reply = "Yes"
       THEN /\ deviceInfoList' = <<>>
            /\ cvesObject' = <<>>
            /\ results_to_device_map' = <<>>
            /\ results_list' = <<>>
            /\ totalCompromiseDisplay' =
                   DisplayAfterImportValues(<<>>, update_result_button(RZero))
       ELSE /\ totalCompromiseDisplay' =
                   DisplayAfterImportValues(deviceInfoList, totalCompromiseDisplay)
            /\ UNCHANGED <<deviceInfoList, cvesObject, results_list, results_to_device_map>>
    /\ UNCHANGED <<search_terms, detailed_search, nvd, lookupThreads>>

\* call_search_nvd_cpe once it returns in a thread whose wait has timed out:
\* it extends the cpeList and sets the event of a loop iteration that has
\* moved on, and neither is read again.
call_search_nvd_cpe_IntoGlobals(cpeTerm) ==
    /\ cpeTerm \in lookupThreads
    /\ lookupThreads' = lookupThreads \ {cpeTerm}
    /\ nvd' = [nvd EXCEPT !.officialCPE =
                    @ \o [k \in 1 .. Len(search_nvd_cpe(cpeTerm)) |->
                             <<search_nvd_cpe(cpeTerm)[k], 1>>]]
    /\ UNCHANGED <<deviceInfoList, cvesObject, results_list, results_to_device_map,
                   totalCompromiseDisplay, search_terms, detailed_search>>

call_search_nvd_cpe(cpeTerm) ==
    /\ cpeTerm \in lookupThreads
    /\ lookupThreads' = lookupThreads \ {cpeTerm}
    /\ UNCHANGED <<deviceInfoList, cvesObject, results_list, results_to_device_map,
                   totalCompromiseDisplay, search_terms, detailed_search, nvd>>

\* ------------------------------------------------------------------------
\* parameters_ui.py: the handlers
\* ------------------------------------------------------------------------

\* update_time_range_1(value, unit), then update_time_difference().
update_time_range_1(value, unit) ==
    /\ time_range_1_input' = [value |-> value, unit |-> unit]
    /\ timeRange1' = convert_to_hours(value, unit)
    /\ timeDifference' = Abs(timeRange2 - convert_to_hours(value, unit))
    /\ dialogs' = <<>>
    /\ raised' = ""
    /\ probabilities' = <<>>
    /\ returnValues' = <<>>
    /\ UNCHANGED <<importVars, values, impact_buttons, information_buttons,
                   time_range_2_input, timeRange2, mainVars>>

\* update_time_range_2(value, unit), then update_time_difference().
update_time_range_2(value, unit) ==
    /\ time_range_2_input' = [value |-> value, unit |-> unit]
    /\ timeRange2' = convert_to_hours(value, unit)
    /\ timeDifference' = Abs(convert_to_hours(value, unit) - timeRange1)
    /\ dialogs' = <<>>
    /\ raised' = ""
    /\ probabilities' = <<>>
    /\ returnValues' = <<>>
    /\ UNCHANGED <<importVars, values, impact_buttons, information_buttons,
                   time_range_1_input, timeRange1, mainVars>>

\* What a scorer leaves alone besides the buttons of its panel, which Qt
\* checks before the scorer runs.
ScorerUnchanged ==
    UNCHANGED <<importVars, time_range_1_input, time_range_2_input, timeRange1,
                timeRange2, timeDifference, mainVars>>

\* update_policy_layout(returnValue, resultButton):
\* values.policy = returnValue[0][3].
update_policy_layout(returnValue) ==
    /\ values' = [values EXCEPT !.policy = returnValue[1][4]]
    /\ dialogs' = <<>>
    /\ raised' = ""
    /\ probabilities' = <<>>
    /\ returnValues' = <<returnValue>>
    /\ ScorerUnchanged

\* update_information_rate_layout storing 0 when the mapping gives a message.
update_information_rate_layout_StoresZero(returnValue) ==
    /\ IF Len(map_information_rate_categories(returnValue)) = 2
       THEN /\ values' = [values EXCEPT !.information =
                             map_information_rate_categories(returnValue)[2]]
            /\ raised' = ""
       ELSE /\ values' = [values EXCEPT !.information = 0]
            /\ raised' = "ValueError"
    /\ dialogs' = <<>>
    /\ probabilities' = <<>>
    /\ returnValues' = <<returnValue>>
    /\ ScorerUnchanged

\* update_information_rate_layout(returnValue, resultButton): unpacking the
\* result of map_information_rate_categories into severityLabel and
\* severityValue raises ValueError unless it holds two items, and then
\* values.information is not assigned.
update_information_rate_layout(returnValue) ==
    /\ IF Len(map_information_rate_categories(returnValue)) = 2
       THEN /\ values' = [values EXCEPT !.information =
                             map_information_rate_categories(returnValue)[2]]
            /\ raised' = ""
       ELSE /\ values' = values
            /\ raised' = "ValueError"
    /\ dialogs' = <<>>
    /\ probabilities' = <<>>
    /\ returnValues' = <<returnValue>>
    /\ ScorerUnchanged

\* update_impact_layout(returnValue, resultButton): values.impact is
\* assigned round(impactExtent, 2) after the clamp.
update_impact_layout(returnValue) ==
    /\ \E impact \in StoredImpact(returnValue) :
           values' = [values EXCEPT !.impact = impact]
    /\ dialogs' = <<>>
    /\ raised' = ""
    /\ probabilities' = <<>>
    /\ returnValues' = <<returnValue>>
    /\ ScorerUnchanged

\* ------------------------------------------------------------------------
\* main.py
\* ------------------------------------------------------------------------

\* One part of the text of displayTimeDifference: the count and its unit,
\* plural unless the count is 1.
TimePart(count, unit, units) == <<count, IF count = 1 THEN unit ELSE units>>

\* The list result of displayTimeDifference for the four counts.
TimeParts(months, days, hours, minutes) ==
    (IF months > 0 THEN <<TimePart(months, "month", "months")>> ELSE <<>>)
    \o (IF days > 0 \/ (months > 0 /\ (hours > 0 \/ minutes > 0))
        THEN <<TimePart(days, "day", "days")>> ELSE <<>>)
    \o (IF hours > 0 \/ ((days > 0 \/ months > 0) /\ minutes > 0)
        THEN <<TimePart(hours, "hour", "hours")>> ELSE <<>>)
    \o (IF minutes > 0 \/ hours > 0 \/ days > 0 \/ months > 0
        THEN <<TimePart(minutes, "minute", "minutes")>> ELSE <<>>)

\* displayTimeDifference counting a month as 31 days.
displayTimeDifference_LongMonth(hours) ==
    LET n == hours[1]
        d == hours[2]
    IN  TimeParts(n \div (31 * 24 * d), (n % (31 * 24 * d)) \div (24 * d),
                  ((n % (31 * 24 * d)) % (24 * d)) \div d,
                  ((((n % (31 * 24 * d)) % (24 * d)) % d) * 60) \div d)

\* displayTimeDifference(hours) for the number of hours hours[1] / hours[2]
\* (hours[2] > 0): the parts of the text it returns, in order.  // and % are
\* the floor division and its remainder, int() drops the fraction of a
\* number that is not negative.
displayTimeDifference(hours) ==
    LET n == hours[1]
        d == hours[2]
    IN  TimeParts(n \div (30 * 24 * d), (n % (30 * 24 * d)) \div (24 * d),
                  ((n % (30 * 24 * d)) % (24 * d)) \div d,
                  ((((n % (30 * 24 * d)) % (24 * d)) % d) * 60) \div d)

\* EmptyImport returning True whatever the operator answers.
EmptyImport_IgnoresReply(variable, reply, checked) ==
    IF ~variable /\ show_message_box
    THEN [shown |-> TRUE,
          show_message_box |-> IF checked THEN FALSE ELSE show_message_box,
          result |-> TRUE]
    ELSE [shown |-> FALSE, show_message_box |-> show_message_box, result |-> TRUE]

\* EmptyImport(variable) with the operator's reply and whether they tick "Do
\* not show again": whether the prompt was shown, show_message_box after the
\* call, and the value returned.
EmptyImport(variable, reply, checked) ==
    IF ~variable /\ show_message_box
    THEN [shown |-> TRUE,
          show_message_box |-> IF checked THEN FALSE ELSE show_message_box,
          result |-> reply = "Yes"]
    ELSE [shown |-> FALSE, show_message_box |-> show_message_box, result |-> TRUE]

\* The attributes of the class Values: values.data is none of them.
ValuesAttributes == {"impact", "information", "policy"}

\* ShowResults without lines 91-92: the deviceProbability of the empty
\* collection stays 0.
WorstCase_Kept(deviceProbability) == deviceProbability

\* Lines 91-92 of ShowResults: a deviceProbability of 0 becomes 1.
WorstCase(deviceProbability) ==
    IF REq(deviceProbability, RZero) THEN ROne ELSE deviceProbability

\* Line 94 of ShowResults: 1 - ((1 - deviceProbability) * (1 - values.policy)),
\* the policy in hundredths.
Probability[deviceProbability \in Rat, policy \in Int] ==
    RSub[ROne, RMul[RSub[ROne, deviceProbability], RSub[ROne, R(policy, 100)]]]

\* What line 95 of ShowResults prints for the deviceProbability of line 92.
PrintedProbabilities[deviceProbability \in Rat, policy \in Int] ==
    <<[deviceProbability |-> deviceProbability,
       probability |-> Probability[deviceProbability, policy]]>>

\* ShowResults: the Calculate Cryptoperiod button.  GetImportValues() runs
\* first and refreshes the compromise button; updateTimeDifference() stores
\* timeDifference.  Past the two guards, lines 91-95 substitute the worst
\* case, compute the probability and print both; line 97 computes weight and
\* line 98 reads values.data, which raises AttributeError: the statements
\* after it, the cryptoperiod and results_text_box.setText among them, are
\* not reached.
ShowResults(reply, checked) ==
    \E imported \in {get_import_values(deviceInfoList)} :
        /\ totalCompromiseDisplay' = DisplayOf[imported, totalCompromiseDisplay]
        /\ IF IsError(imported)
           THEN /\ raised' = imported.err
                /\ dialogs' = <<>>
                /\ probabilities' = <<>>
                /\ UNCHANGED <<timeDifference, show_message_box>>
           ELSE /\ timeDifference' = Abs(timeRange2 - timeRange1)
                /\ IF timeRange1 > timeRange2
                   THEN /\ dialogs' = <<"Minimum cryptoperiod time must be smaller than the maximum cryptoperiod time.">>
                        /\ raised' = ""
                        /\ probabilities' = <<>>
                        /\ UNCHANGED show_message_box
                   ELSE \E prompt \in {EmptyImport(imported.isNotEmpty, reply, checked)} :
                        /\ dialogs' = IF prompt.shown THEN <<"No Imported Devices">> ELSE <<>>
                        /\ show_message_box' = prompt.show_message_box
                        /\ probabilities' =
                               IF ~prompt.result THEN <<>>
                               ELSE PrintedProbabilities[WorstCase(imported.totalCompromise),
                                                         values.policy]
                        /\ raised' =
                               IF ~prompt.result THEN ""
                               ELSE IF "data" \in ValuesAttributes THEN ""
                               ELSE "AttributeError"
        /\ results_text_box' = results_text_box
        /\ cryptoperiod' = cryptoperiod
        /\ returnValues' = <<>>
        /\ UNCHANGED <<deviceInfoList, cvesObject, results_list, results_to_device_map, search_terms,
                       detailed_search, nvd, lookupThreads, values, impact_buttons, information_buttons,
                       time_range_1_input, time_range_2_input, timeRange1, timeRange2>>

\* ------------------------------------------------------------------------
\* The operator
\* ------------------------------------------------------------------------

\* The import panel leaves the parameters and main.py alone, and its handlers
\* end without an exception.
ImportPanel ==
    /\ raised' = ""
    /\ probabilities' = <<>>
    /\ returnValues' = <<>>
    /\ UNCHANGED <<parameterVars, mainVars>>

\* The choices of the operator in choose_which_cpe, one per term of a pass.
PickOptions == {"None", "cpe:hmi", "cpe:hmi_firmware"}

\* The cpeNames choose_which_cpe lists for a term; the dialog is shown only in
\* a detailed search with several hits.
Listed(term) ==
    LET found == search_nvd_cpe(term)
    IN  IF detailed_search /\ Len(found) > 1
        THEN {found[k] : k \in 1 .. Len(found)} ELSE {}

\* The Search button of the Individual tab.  The searches leave no lookup
\* thread behind: a thread whose wait timed out ends before the pass does.
IndividualSearch ==
    \E name \in SearchNames, timedOut \in SUBSET {1}, lookupFails \in BOOLEAN :
        \E picks \in {p \in [{1} -> PickOptions] :
                          p[1] \in {"None"} \cup Listed(Strip(name))} :
            handle_search("Individual", name, timedOut, picks, lookupFails, {}) /\ ImportPanel

\* The Search button of the Group tab.
GroupSearch ==
    \E timedOut \in SUBSET DOMAIN search_terms, lookupFails \in BOOLEAN :
        \E picks \in {p \in [DOMAIN search_terms -> PickOptions] :
                          \A i \in DOMAIN search_terms :
                              p[i] \in {"None"} \cup Listed(search_terms[i][1])} :
            handle_search("Group", "", timedOut, picks, lookupFails, {}) /\ ImportPanel

\* The Search button of the Group tab, with lookup threads that may outlive
\* the pass; the search is not detailed, so no choice is asked for.
SlowGroupSearch ==
    \E timedOut \in SUBSET DOMAIN search_terms, lookupFails \in BOOLEAN :
        \E running \in SUBSET timedOut :
            /\ handle_search("Group", "", timedOut, [i \in DOMAIN search_terms |-> "None"],
                             lookupFails, running)
            /\ ImportPanel

\* A lookup thread left behind by a search returns.
LateLookup ==
    \E cpeTerm \in lookupThreads :
        /\ call_search_nvd_cpe(cpeTerm)
        /\ UNCHANGED <<dialogs, raised, probabilities, returnValues, parameterVars, mainVars>>

GroupFileLoad ==
    \E picked \in BOOLEAN, lines \in GroupFiles :
        handle_group_file_load(picked, lines) /\ ImportPanel

DetailedSearch == \E state \in BOOLEAN : toggle_detailed_search(state) /\ ImportPanel

SaveDevice ==
    \E name \in ManualNames, rows \in ManualForms : save_device(name, rows) /\ ImportPanel

ToggleCVE ==
    \E idx \in 1 .. Len(deviceInfoList) :
        \E k \in 1 .. Len(deviceInfoList[idx][2]) :
            /\ toggleCVE(idx, CveId(deviceInfoList[idx][2][k]),
                         ~CveStatus(deviceInfoList[idx][2][k]))
            /\ ImportPanel

RemoveDevice ==
    \E idx \in 1 .. Len(deviceInfoList), reply \in {"Yes", "No"} :
        remove_device(idx, reply) /\ ImportPanel

ClearDevices == \E reply \in {"Yes", "No"} : clear_devices(reply) /\ ImportPanel

\* The value the operator sets a spin box of the window to, and the unit they
\* pick in a combo box (the defaults are 1 day and 12 months).
SpinValues == {24}
UnitChoices == {"hours"}

\* The spin box or the combo box of "Minimum:" changes.
TimeRange1Changed ==
    \/ \E value \in SpinValues \ {time_range_1_input.value} :
           update_time_range_1(value, time_range_1_input.unit)
    \/ \E unit \in UnitChoices \ {time_range_1_input.unit} :
           update_time_range_1(time_range_1_input.value, unit)

\* The spin box or the combo box of "Maximum:" changes.
TimeRange2Changed ==
    \/ \E value \in SpinValues \ {time_range_2_input.value} :
           update_time_range_2(value, time_range_2_input.unit)
    \/ \E unit \in UnitChoices \ {time_range_2_input.unit} :
           update_time_range_2(time_range_2_input.value, unit)

\* A button of Policy Strength is checked: update_button runs
\* display_results and update_policy_layout.
PolicyButton ==
    \E label \in {"None", "Low", "Medium", "High"} :
        /\ update_policy_layout(display_results(PolicyButtonGroups(label)))
        /\ UNCHANGED <<impact_buttons, information_buttons>>

\* A button of Data Rate (group 1) or Publishers (group 2) is checked.
InformationButton ==
    \E group \in 1 .. 2, level \in {"Low", "Medium", "High"} :
        /\ level # information_buttons[group]
        /\ information_buttons' = [information_buttons EXCEPT ![group] = level]
        /\ update_information_rate_layout(
               display_results(InformationButtonGroups(
                   [information_buttons EXCEPT ![group] = level])))
        /\ UNCHANGED impact_buttons

\* update_button of the impact panel once the button label of group (1 or 2)
\* of category is checked.
update_button_impact(category, group, label) ==
    /\ impact_buttons' =
           [impact_buttons EXCEPT ![category] = [impact_buttons[category] EXCEPT ![group] = label]]
    /\ update_impact_layout(
           display_results(ImpactButtonGroups(
               [impact_buttons EXCEPT
                   ![category] = [impact_buttons[category] EXCEPT ![group] = label]])))
    /\ UNCHANGED information_buttons

ImpactButton ==
    \E category \in Categories, group \in 1 .. 2,
       label \in {"None", "Low", "Medium", "High", "Critical"} :
        /\ label # impact_buttons[category][group]
        /\ update_button_impact(category, group, label)

CalculateCryptoperiod ==
    \E reply \in {"Yes", "No"}, checked \in BOOLEAN : ShowResults(reply, checked)

Next ==
    \/ IndividualSearch
    \/ GroupSearch
    \/ SlowGroupSearch
    \/ LateLookup
    \/ GroupFileLoad
    \/ DetailedSearch
    \/ SaveDevice
    \/ ToggleCVE
    \/ RemoveDevice
    \/ ClearDevices
    \/ TimeRange1Changed
    \/ TimeRange2Changed
    \/ PolicyButton
    \/ InformationButton
    \/ ImpactButton
    \/ CalculateCryptoperiod

Spec == Init /\ [][Next]_vars

\* The operator builds the collection by hand: the Add Device dialog, the
\* checkboxes and the Remove button of the device popup, and Clear Devices.
ManualNext ==
    \/ SaveDevice
    \/ ToggleCVE
    \/ RemoveDevice
    \/ ClearDevices

ManualSpec == Init /\ [][ManualNext]_vars

\* The operator works the calculator: they set the window, the policy
\* strength and the impact of one category, add a device by hand or clear
\* the collection, and press Calculate Cryptoperiod.
CalculatorSaveDevice ==
    save_device("pump", << <<"CVE-M3", 260, "NONE">>, <<"CVE-M6", 130, "LOW">> >>)
        /\ ImportPanel

CalculatorImpactButton ==
    \E group \in 1 .. 2, label \in {"None", "Critical"} :
        /\ label # impact_buttons["Operational"][group]
        /\ update_button_impact("Operational", group, label)

CalculatorNext ==
    \/ CalculatorSaveDevice
    \/ ClearDevices
    \/ TimeRange1Changed
    \/ TimeRange2Changed
    \/ PolicyButton
    \/ CalculatorImpactButton
    \/ CalculateCryptoperiod

CalculatorSpec == Init /\ [][CalculatorNext]_vars

\* The operator builds the collection by hand and presses Calculate
\* Cryptoperiod at any point, answering the prompt for the worst case.
ImportAndCalculateNext ==
    \/ SaveDevice
    \/ ToggleCVE
    \/ RemoveDevice
    \/ ClearDevices
    \/ CalculateCryptoperiod

ImportAndCalculateSpec == Init /\ [][ImportAndCalculateNext]_vars

\* The operator adds devices one at a time, by name or by hand, and clears
\* the collection.
EntryNext ==
    \/ IndividualSearch
    \/ SaveDevice
    \/ ClearDevices

EntrySpec == Init /\ [][EntryNext]_vars

\* The operator imports devices from batch files, with or without the
\* detailed search, and clears the collection.
BatchNext ==
    \/ GroupFileLoad
    \/ DetailedSearch
    \/ GroupSearch
    \/ ClearDevices

BatchSpec == Init /\ [][BatchNext]_vars

\* The Search button of the Individual tab for a product name typed in full,
\* every lookup thread answering in time.
ProductSearch ==
    \E name \in {"plc", "hmi", "zz"}, lookupFails \in BOOLEAN :
        handle_search("Individual", name, {}, [i \in {1} |-> "None"], lookupFails, {})
            /\ ImportPanel

\* The operator builds the collection from product searches and by hand,
\* ticks and unticks vulnerabilities, removes devices and clears the
\* collection.
CollectionNext ==
    \/ ProductSearch
    \/ SaveDevice
    \/ ToggleCVE
    \/ RemoveDevice
    \/ ClearDevices

CollectionSpec == Init /\ [][CollectionNext]_vars

\* The operator imports devices from batch files, ticks and unticks
\* vulnerabilities, removes devices and clears the collection.
FleetNext ==
    \/ GroupFileLoad
    \/ GroupSearch
    \/ ToggleCVE
    \/ RemoveDevice
    \/ ClearDevices

FleetSpec == Init /\ [][FleetNext]_vars

\* The operator imports devices from batch files over a slow connection and
\* clears the collection.
TimeoutNext ==
    \/ GroupFileLoad
    \/ SlowGroupSearch
    \/ LateLookup
    \/ ClearDevices

TimeoutSpec == Init /\ [][TimeoutNext]_vars

\* The operator loads batch files and searches from both tabs.
BothTabsNext ==
    \/ GroupFileLoad
    \/ IndividualSearch
    \/ GroupSearch
    \/ ClearDevices

BothTabsSpec == Init /\ [][BothTabsNext]_vars

\* The selections the three scorers are run on: what display_results gives
\* for checked buttons of the panels, and lists a caller other than the
\* panels may pass (no entry, one entry, a level the panel does not have, a
\* category with one score).
Levels == {"Low", "Medium", "High"}

InformationReturnValues ==
    {display_results(InformationButtonGroups(<<dataRate, publishers>>)) :
        dataRate \in Levels, publishers \in Levels}
    \cup { <<>>,
           << <<1, "Data Rate", "High", 3>> >>,
           << <<1, "Data Rate", "Critical", 4>>, <<1, "Publishers", "Low", 1>> >>,
           << <<1, "Data Rate", "Medium", 2>>, <<1, "Publishers", "None", 0>> >> }

ImpactReturnValues ==
    {display_results(ImpactButtonGroups(
         [c \in Categories |->
             IF c = "Operational" THEN operational
             ELSE IF c = "Safety" THEN safety
             ELSE <<"None", "None">>])) :
        operational \in {<<"None", "None">>, <<"Low", "Low">>, <<"Low", "High">>,
                          <<"Medium", "High">>, <<"Critical", "Critical">>},
        safety \in {<<"None", "None">>, <<"High", "High">>, <<"Low", "Critical">>}}
    \cup { <<>>,
           << <<1, "Operational", "Medium", 60>>, <<1, "Safety", "High", 100>>,
              <<2, "Safety", "Low", 30>> >> }

PolicyReturnValues ==
    {display_results(PolicyButtonGroups(label)) : label \in {"None", "Low", "Medium", "High"}}

ScoreInformationRate ==
    \E returnValue \in InformationReturnValues :
        /\ update_information_rate_layout(returnValue)
        /\ UNCHANGED <<impact_buttons, information_buttons>>

ScoreImpact ==
    \E returnValue \in ImpactReturnValues :
        /\ update_impact_layout(returnValue)
        /\ UNCHANGED <<impact_buttons, information_buttons>>

ScorePolicy ==
    \E returnValue \in PolicyReturnValues :
        /\ update_policy_layout(returnValue)
        /\ UNCHANGED <<impact_buttons, information_buttons>>

ScorerNext ==
    \/ ScoreInformationRate
    \/ ScoreImpact
    \/ ScorePolicy

ScorerSpec == Init /\ [][ScorerNext]_vars

\* The cryptoperiods the results box is made to show, as pairs <<n, d>> for
\* n / d hours: every combination of no, one and several months, days and
\* hours with a fraction of no, half a, one and just under sixty minutes, and
\* sevenths of an hour around a day and a month.
DisplayedHours ==
    { <<((months * 30 + days) * 24 + hours) * 120 + fraction, 120>> :
          months \in {0, 1, 12}, days \in {0, 1, 29}, hours \in {0, 1, 23},
          fraction \in {0, 1, 2, 119} }
    \cup { <<n, 7>> : n \in {1, 6, 167, 169, 5039, 5041} }

\* The last statements of ShowResults for a cryptoperiod of hours:
\* results_text_box.setText(displayTimeDifference(cryptoperiod)).
ShowCryptoperiod ==
    \E hours \in DisplayedHours :
        /\ cryptoperiod' = <<hours>>
        /\ results_text_box' = displayTimeDifference(hours)
        /\ UNCHANGED <<importVars, dialogs, raised, probabilities, returnValues,
                       parameterVars, show_message_box>>

DisplayNext == ShowCryptoperiod

DisplaySpec == Init /\ [][DisplayNext]_vars

\* ------------------------------------------------------------------------
\* Properties of the device resilience model and of the aggregator
\* ------------------------------------------------------------------------

\* The base rate of the specification.
baseRate == DefaultBd

\* The rows of the collection and the vulnerabilities of the device in row d.
Devices == 1 .. Len(deviceInfoList)
CvesOf(d) == deviceInfoList[d][2]

\* The positions of the enabled entries of a vulnerability list.
EnabledIn(cves) == {k \in 1 .. Len(cves) : CveStatus(cves[k])}

\* Every exploitability lies in [0, 3.9] and every impact is one of the three
\* names.
InRange(cves) ==
    \A k \in 1 .. Len(cves) :
        /\ CveExploit(cves[k]) \in 0 .. 390
        /\ CveImpact(cves[k]) \in {"NONE", "LOW", "HIGH"}

\* An enabled entry with exploitability 3.9 and impact HIGH at a position of
\* cves other than k (k = 0: at any position).
CertainBeside(cves, k) ==
    \E j \in EnabledIn(cves) \ {k} :
        CveExploit(cves[j]) = 390 /\ CveImpact(cves[j]) = "HIGH"

\* The weight the specification gives an impact.
SpecWeight(impact) ==
    IF impact = "NONE" THEN R(1, 10)
    ELSE IF impact = "LOW" THEN R(3, 10)
    ELSE R(1, 1)

\* 1 - weight(impact) * (exploitability / 3.9)^2 for one entry.
SpecFactor(cve) ==
    RSub[ROne, RMul[SpecWeight(CveImpact(cve)),
                    RMul[RDiv[Score(CveExploit(cve)), R(39, 10)],
                         RDiv[Score(CveExploit(cve)), R(39, 10)]]]]

\* P: the product of SpecFactor over the enabled entries only.
SpecProduct[cves \in CveSeq] ==
    IF cves = <<>> THEN ROne
    ELSE IF CveStatus(Head(cves)) THEN RMul[SpecFactor(Head(cves)), SpecProduct[Tail(cves)]]
    ELSE SpecProduct[Tail(cves)]

\* baseRate + (1 - baseRate) * (1 - P).
SpecResilience(cves) ==
    RAdd[baseRate, RMul[RSub[ROne, baseRate], RSub[ROne, SpecProduct[cves]]]]

\* C1: for every vulnerability list in which no entry is enabled, the empty
\* list included, calculate_resilience returns exactly baseRate (0.03).
C1_NoEnabledEntryGivesBaseRate ==
    /\ REq(calculate_resilience(<<>>), R(3, 100))
    /\ \A d \in Devices :
           EnabledIn(CvesOf(d)) = {} => REq(calculate_resilience(CvesOf(d)), R(3, 100))

\* A device holds vulnerabilities and every one of them is disabled.
C1_Witness ==
    \E d \in Devices : CvesOf(d) # <<>> /\ EnabledIn(CvesOf(d)) = {}

\* C2: for in-range lists calculate_resilience returns
\* baseRate + (1 - baseRate) * (1 - P), P the product over the enabled entries
\* of 1 - weight * (exploitability / 3.9)^2 with weights 0.1, 0.3 and 1.0;
\* the list with its disabled entries removed gives the same result, and one
\* enabled entry with exploitability 3.9 and impact HIGH gives 1.0.
C2_ResilienceFormula ==
    \A d \in Devices :
        InRange(CvesOf(d)) =>
            /\ REq(calculate_resilience(CvesOf(d)), SpecResilience(CvesOf(d)))
            /\ REq(calculate_resilience(CvesOf(d)),
                   calculate_resilience(ActiveCves(CvesOf(d))))
            /\ (Cardinality(EnabledIn(CvesOf(d))) = 1 /\ CertainBeside(CvesOf(d), 0)
                    => REq(calculate_resilience(CvesOf(d)), ROne))

\* A device whose only enabled entry has exploitability 3.9 and impact HIGH,
\* next to a disabled entry.
C2_Witness ==
    \E d \in Devices :
        /\ Cardinality(EnabledIn(CvesOf(d))) = 1
        /\ CertainBeside(CvesOf(d), 0)
        /\ Len(CvesOf(d)) > 1

\* C3 as claimed: for in-range lists the value of calculate_resilience is at
\* least 0 and strictly less than 1.
C3_BelowOne ==
    \A d \in Devices :
        InRange(CvesOf(d)) =>
            /\ RLe(RZero, calculate_resilience(CvesOf(d)))
            /\ RLt(calculate_resilience(CvesOf(d)), ROne)

\* C3 as amended: for in-range lists the value of calculate_resilience lies
\* in [baseRate, 1], and it is 1 exactly when an enabled entry has
\* exploitability 3.9 and impact HIGH.
C3_WithinBaseRateAndOne ==
    \A d \in Devices :
        InRange(CvesOf(d)) =>
            /\ RLe(baseRate, calculate_resilience(CvesOf(d)))
            /\ RLe(calculate_resilience(CvesOf(d)), ROne)
            /\ REq(calculate_resilience(CvesOf(d)), ROne) <=> CertainBeside(CvesOf(d), 0)

\* A device with an enabled entry of exploitability 3.9 and impact HIGH.
C3_Witness ==
    \E d \in Devices : InRange(CvesOf(d)) /\ CertainBeside(CvesOf(d), 0)

\* The exploitability scores (in hundredths) an entry is raised to.
ExploitGrid == {0, 100, 130, 195, 200, 260, 389, 390}

\* cves with the exploitability of entry k set to e.
WithExploit(cves, k, e) ==
    [cves EXCEPT ![k] = <<<<CveId(cves[k]), e, CveImpact(cves[k])>>, CveStatus(cves[k])>>]

\* C4 as claimed: raising the exploitability of one enabled entry, the other
\* entries of the device fixed, strictly increases calculate_resilience.
C4_StrictlyIncreasing ==
    \A d \in Devices : \A k \in EnabledIn(CvesOf(d)) : \A e \in ExploitGrid :
        InRange(CvesOf(d)) /\ e > CveExploit(CvesOf(d)[k]) =>
            RLt(calculate_resilience(CvesOf(d)),
                calculate_resilience(WithExploit(CvesOf(d), k, e)))

\* C4 as amended: raising the exploitability of one enabled entry never
\* decreases calculate_resilience; it strictly increases it unless another
\* enabled entry of the device has exploitability 3.9 and impact HIGH, in
\* which case the value is 1.0 before and after.
C4_IncreasingUnlessCertain ==
    \A d \in Devices : \A k \in EnabledIn(CvesOf(d)) : \A e \in ExploitGrid :
        InRange(CvesOf(d)) /\ e > CveExploit(CvesOf(d)[k]) =>
            IF CertainBeside(CvesOf(d), k)
            THEN /\ REq(calculate_resilience(CvesOf(d)), ROne)
                 /\ REq(calculate_resilience(WithExploit(CvesOf(d), k, e)), ROne)
            ELSE RLt(calculate_resilience(CvesOf(d)),
                     calculate_resilience(WithExploit(CvesOf(d), k, e)))

\* A device with two enabled entries, one below 3.9 and neither certain.
C4_Witness ==
    \E d \in Devices : \E k \in EnabledIn(CvesOf(d)) :
        /\ Cardinality(EnabledIn(CvesOf(d))) = 2
        /\ CveExploit(CvesOf(d)[k]) < 390
        /\ ~CertainBeside(CvesOf(d), 0)

\* The compromise probability get_import_values returns for a collection.
Total(list) == get_import_values(list).totalCompromise

\* The resilience value get_import_values gives the device in row d of list.
ResilienceOf(list, d) == calculate_resilience(ActiveCves(list[d][2]))

\* The vulnerability lists a device's own list is replaced by.
AltCves ==
    { <<>>,
      << <<<<"CVE-A1", 195, "LOW">>, TRUE>> >>,
      << <<<<"CVE-A2", 260, "HIGH">>, TRUE>>, <<<<"CVE-A3", 130, "NONE">>, TRUE>> >>,
      << <<<<"CVE-A4", 390, "HIGH">>, TRUE>> >> }

\* list with the vulnerabilities of the device in row d replaced by alt.
WithCves(list, d, alt) == [list EXCEPT ![d] = <<list[d][1], alt>>]

\* A device of the collection other than d whose resilience value is 1.
CertainDeviceBeside(d) ==
    \E j \in Devices \ {d} : REq(ResilienceOf(deviceInfoList, j), ROne)

\* C5 as claimed: raising the resilience value of one device, the other
\* devices fixed, strictly increases the overall compromise probability
\* get_import_values returns.
C5_AggregateStrictlyIncreasing ==
    \A d \in Devices : \A alt \in AltCves :
        RLt(ResilienceOf(deviceInfoList, d), calculate_resilience(alt)) =>
            RLt(Total(deviceInfoList), Total(WithCves(deviceInfoList, d, alt)))

\* C5 as amended: raising the resilience value of one device never decreases
\* the overall compromise probability; it strictly increases it unless
\* another device of the collection has resilience value 1, in which case
\* the probability is 1 before and after.
C5_AggregateIncreasingUnlessCertain ==
    \A d \in Devices : \A alt \in AltCves :
        RLt(ResilienceOf(deviceInfoList, d), calculate_resilience(alt)) =>
            IF CertainDeviceBeside(d)
            THEN /\ REq(Total(deviceInfoList), ROne)
                 /\ REq(Total(WithCves(deviceInfoList, d, alt)), ROne)
            ELSE RLt(Total(deviceInfoList), Total(WithCves(deviceInfoList, d, alt)))

\* Two devices with vulnerabilities enabled, neither with resilience value 1.
C5_Witness ==
    /\ Len(deviceInfoList) = 2
    /\ \A d \in Devices :
           /\ EnabledIn(CvesOf(d)) # {}
           /\ ~REq(ResilienceOf(deviceInfoList, d), ROne)

\* The product over the devices of 1 - deviceResilience.
SurvivalProduct[list \in DeviceInfoList] ==
    IF list = <<>> THEN ROne
    ELSE RMul[RSub[ROne, calculate_resilience(ActiveCves(Head(list)[2]))],
              SurvivalProduct[Tail(list)]]

\* C6: get_import_values signals "no data" (its flag is false) if and only
\* if the collection is empty; for a collection that is not empty the flag
\* is true and the value is 1 minus the product over the devices of
\* 1 - deviceResilience.
C6_NoDataIffEmpty ==
    /\ get_import_values(deviceInfoList).isNotEmpty = (deviceInfoList # <<>>)
    /\ deviceInfoList # <<>> =>
           REq(Total(deviceInfoList), RSub[ROne, SurvivalProduct[deviceInfoList]])

\* The collection is empty again after it held a device.
C6_Witness ==
    /\ deviceInfoList = <<>>
    /\ dialogs \in {<<"Remove Device">>, <<"Clear All Devices">>}
    /\ ~get_import_values(deviceInfoList).isNotEmpty

\* C7: when the collection holds N >= 1 devices and every vulnerability of
\* every device is disabled, get_import_values returns 1 - (1 - baseRate)^N.
C7_AllDisabledGivesBaseRatePower ==
    (/\ Len(deviceInfoList) >= 1
     /\ \A d \in Devices : EnabledIn(CvesOf(d)) = {})
        => REq(Total(deviceInfoList),
               RSub[ROne, RPowInt[RSub[ROne, baseRate], Len(deviceInfoList)]])

\* Two devices that hold vulnerabilities, every one of them disabled.
C7_Witness ==
    /\ Len(deviceInfoList) = 2
    /\ \A d \in Devices : CvesOf(d) # <<>> /\ EnabledIn(CvesOf(d)) = {}

\* ------------------------------------------------------------------------
\* Properties of the final calculator
\* ------------------------------------------------------------------------

\* The message box of showCryptoperiodWarning.
RangeError ==
    <<"Minimum cryptoperiod time must be smaller than the maximum cryptoperiod time.">>

\* The hours a text of displayTimeDifference stands for, in minutes.
MinutesOf[text \in Seq(Int \X STRING)] ==
    IF text = <<>> THEN 0
    ELSE MinutesOf[Tail(text)]
         + Head(text)[1] * (IF Head(text)[2] \in {"month", "months"} THEN 30 * 24 * 60
                            ELSE IF Head(text)[2] \in {"day", "days"} THEN 24 * 60
                            ELSE IF Head(text)[2] \in {"hour", "hours"} THEN 60
                            ELSE 1)

\* C8: whenever the minimum of the window is greater than or equal to the
\* maximum, ShowResults reports the range error and aborts: the prompt for
\* the worst case is not shown, nothing is computed or written to the
\* results box, and no session state changes.
C8_RangeErrorWheneverMinNotBelowMax ==
    [][(timeRange1 >= timeRange2 /\ CalculateCryptoperiod) =>
           /\ dialogs' = RangeError
           /\ UNCHANGED <<importVars, parameterVars, mainVars>>]_vars

\* C9: whenever the minimum of the window is below the maximum and the
\* request is not declined, ShowResults ends with a cryptoperiod in the
\* results box that lies within [minHours, maxHours].
C9_CryptoperiodWithinWindow ==
    [][(timeRange1 < timeRange2 /\ ShowResults("Yes", FALSE)) =>
           /\ raised' = ""
           /\ results_text_box' # <<>>
           /\ MinutesOf[results_text_box'] >= timeRange1 * 60
           /\ MinutesOf[results_text_box'] <= timeRange2 * 60]_vars

\* C10: in the default risk-factor state (impact = 0, so finalRisk = 0) the
\* cryptoperiod ShowResults recommends for a window with minHours < maxHours
\* is maxHours, whatever the devices and the policy are.
C10_DefaultImpactGivesMaxHours ==
    [][(timeRange1 < timeRange2 /\ values.impact = 0 /\ ShowResults("Yes", FALSE)) =>
           results_text_box' = displayTimeDifference(<<timeRange2, 1>>)]_vars

\* The count the text has for a unit, 0 when the text leaves the unit out.
CountOf(text, unit, units) ==
    LET at == {k \in 1 .. Len(text) : text[k][2] \in {unit, units}}
    IN  IF at = {} THEN 0 ELSE text[CHOOSE k \in at : TRUE][1]

\* C21: for a number of hours h >= 0, the text of displayTimeDifference names
\* each unit at most once, with 0 <= days < 30, 0 <= hours < 24 and
\* 0 <= minutes < 60, and months * 720 + days * 24 + hours + minutes / 60 is
\* at most h and less than one minute below it.
C21_DecompositionWithinAMinute ==
    cryptoperiod # <<>> =>
        LET n == cryptoperiod[1][1]
            d == cryptoperiod[1][2]
            text == results_text_box
            months == CountOf(text, "month", "months")
            days == CountOf(text, "day", "days")
            hours == CountOf(text, "hour", "hours")
            minutes == CountOf(text, "minute", "minutes")
            total == ((months * 30 + days) * 24 + hours) * 60 + minutes
        IN  /\ \A j, k \in 1 .. Len(text) :
                   (j # k) => ~(\E u \in {{"month", "months"}, {"day", "days"},
                                           {"hour", "hours"}, {"minute", "minutes"}} :
                                   text[j][2] \in u /\ text[k][2] \in u)
            /\ months >= 0
            /\ days >= 0 /\ days < 30
            /\ hours >= 0 /\ hours < 24
            /\ minutes >= 0 /\ minutes < 60
            /\ total * d <= 60 * n
            /\ 60 * n < (total + 1) * d

\* The box shows months, days, hours and minutes for a cryptoperiod that is
\* not a whole number of minutes.
C21_Witness ==
    /\ cryptoperiod # <<>>
    /\ Len(results_text_box) = 4
    /\ CountOf(results_text_box, "day", "days") = 29
    /\ (60 * cryptoperiod[1][1]) % cryptoperiod[1][2] # 0

\* C11: whenever ShowResults reaches its formula while no device is
\* imported, the software-compromise probability it uses is 1, never 0; and
\* whenever at least one device is imported the probability it uses is the
\* aggregate 1 minus the product over the devices of (1 - deviceResilience),
\* never the substituted 1.
C11_WorstCaseOnlyWhenEmpty ==
    probabilities # <<>> =>
        IF deviceInfoList = <<>>
        THEN REq(probabilities[1].deviceProbability, ROne)
        ELSE REq(probabilities[1].deviceProbability,
                 RSub[ROne, SurvivalProduct[deviceInfoList]])

\* ShowResults reached its formula with an empty collection after the
\* operator confirmed the prompt.
C11_Witness ==
    /\ probabilities # <<>>
    /\ deviceInfoList = <<>>
    /\ dialogs = <<"No Imported Devices">>

\* The message box of EmptyImport.
WorstCasePrompt == <<"No Imported Devices">>

\* The last request went on to the worst-case substitution: ShowResults
\* passed EmptyImport with an empty collection.
SubstitutedWorstCase == probabilities # <<>> /\ deviceInfoList = <<>>

\* A step of ShowResults in which the operator answers No to the prompt
\* produces nothing: the formula is not reached and the results box keeps
\* its text.
DeclinedProducesNothing ==
    (/\ dialogs' = WorstCasePrompt
     /\ \E checked \in BOOLEAN : ShowResults("No", checked))
        => /\ probabilities' = <<>>
           /\ raised' = ""
           /\ results_text_box' = results_text_box

Selected == returnValues[1]

\* The table of the information rate: the band and the score (in
\* hundredths) at row publishers, column dataRate.
InformationTable(publishers, dataRate) ==
    IF publishers = "Low"
    THEN (IF dataRate = "Low" THEN <<"Very Low", 10>>
          ELSE IF dataRate = "Medium" THEN <<"Low", 30>> ELSE <<"Moderate", 75>>)
    ELSE IF publishers = "Medium"
    THEN (IF dataRate = "Low" THEN <<"Low", 30>>
          ELSE IF dataRate = "Medium" THEN <<"Moderate", 75>> ELSE <<"High", 90>>)
    ELSE (IF dataRate = "Low" THEN <<"Moderate", 75>>
          ELSE IF dataRate = "Medium" THEN <<"High", 90>> ELSE <<"Very High", 100>>)

\* The last handler scored a data-rate level and a publishers level.
InformationPairSelected ==
    /\ returnValues # <<>>
    /\ Len(Selected) = 2
    /\ Selected[1][2] = "Data Rate" /\ Selected[1][3] \in Levels
    /\ Selected[2][2] = "Publishers" /\ Selected[2][3] \in Levels

\* C13: for every pair (data-rate level, publishers level) of {Low, Medium,
\* High}, map_information_rate_categories returns the band and the score at
\* row publishers, column data rate of the table, and
\* update_information_rate_layout stores exactly that score as the
\* information value.
C13_InformationTable ==
    InformationPairSelected =>
        /\ map_information_rate_categories(Selected)
               = InformationTable(Selected[2][3], Selected[1][3])
        /\ values.information = InformationTable(Selected[2][3], Selected[1][3])[2]
        /\ raised = ""

\* Data rate Medium with publishers High was scored: ("High", 0.90).
C13_Witness ==
    /\ InformationPairSelected
    /\ Selected[1][3] = "Medium" /\ Selected[2][3] = "High"
    /\ values.information = 90

\* A step of the information-rate scorer on fewer than two selections or on
\* a level that is none of Low, Medium, High.
IncompleteScored ==
    ScoreInformationRate /\ Len(returnValues'[1]) < 2

InvalidScored ==
    /\ ScoreInformationRate
    /\ Len(returnValues'[1]) >= 2
    /\ \E i \in 1 .. 2 : returnValues'[1][i][3] \notin Levels

\* C14: given fewer than two selections the information-rate scorer signals
\* "incomplete data", given a level that is none of Low, Medium, High it
\* signals "invalid level"; in both cases the update ends with an error and
\* the stored information score keeps its previous value, one of 0.1, 0.3,
\* 0.75, 0.9, 1.0.
C14_ErrorKeepsInformation ==
    /\ [](values.information \in {10, 30, 75, 90, 100})
    /\ [][IncompleteScored =>
              /\ map_information_rate_categories(returnValues'[1]) = <<"Incomplete data">>
              /\ raised' # ""
              /\ values'.information = values.information]_vars
    /\ [][InvalidScored =>
              /\ map_information_rate_categories(returnValues'[1])
                     = <<"Invalid severity level">>
              /\ raised' # ""
              /\ values'.information = values.information]_vars

\* The scorer ended with an error on a level the panel does not have, the
\* stored score being another than the initial one.
C14_Witness ==
    /\ returnValues # <<>>
    /\ Len(Selected) = 2
    /\ Selected[1][3] = "Critical"
    /\ raised = "ValueError"
    /\ values.information = 90

\* The last handler was the impact scorer.
ImpactSelected ==
    /\ returnValues # <<>>
    /\ raised = ""
    /\ \A i \in 1 .. Len(Selected) : Selected[i][2] \in Categories

RECURSIVE WeightProduct(_, _)
\* The product of the severity weights of the entries of returnValue at the
\* positions idxs.
WeightProduct(returnValue, idxs) ==
    IF idxs = {} THEN ROne
    ELSE LET i == CHOOSE k \in idxs : TRUE
         IN  RMul[R(returnValue[i][4], 100), WeightProduct(returnValue, idxs \ {i})]

RECURSIVE WeightSum(_, _)
\* The sum over the categories cats of the product of the weights selected
\* within each.
WeightSum(returnValue, cats) ==
    IF cats = {} THEN RZero
    ELSE LET c == CHOOSE x \in cats : TRUE
         IN  RAdd[WeightProduct(returnValue,
                      {i \in 1 .. Len(returnValue) : returnValue[i][2] = c}),
                  WeightSum(returnValue, cats \ {c})]

\* A: the average over the categories present of the product of the weights
\* selected within the category (0 when nothing is selected).
AverageOfProducts(returnValue) ==
    LET present == {returnValue[i][2] : i \in 1 .. Len(returnValue)}
    IN  IF present = {} THEN RZero
        ELSE RDiv[WeightSum(returnValue, present), R(Cardinality(present), 1)]

\* C15 as stated: the impact value update_impact_layout stores equals
\* min(1, A), A the average over the categories present of the product of
\* the severity weights selected within the category, and lies in [0, 1].
C15_StoredImpactIsClampedAverage ==
    ImpactSelected =>
        /\ REq(R(values.impact, 100), RMin[AverageOfProducts(Selected), ROne])
        /\ values.impact \in 0 .. 100

\* C15, amended: the impact value update_impact_layout stores is min(1, A)
\* rounded to two decimals, so it is a whole number of hundredths at most
\* 0.005 away from min(1, A), and lies in [0, 1].
C15_StoredImpactIsRoundedClampedAverage ==
    ImpactSelected =>
        /\ RLe(RSub[R(values.impact, 100), RMin[AverageOfProducts(Selected), ROne]],
               R(1, 200))
        /\ RLe(RSub[RMin[AverageOfProducts(Selected), ROne], R(values.impact, 100)],
               R(1, 200))
        /\ values.impact \in 0 .. 100

\* Operational Low and Low with the other categories None was scored: the
\* average 0.0225 is stored as 0.02.
C15_Witness ==
    /\ ImpactSelected
    /\ REq(AverageOfProducts(Selected), R(225, 10000))
    /\ values.impact = 2

\* The weight of a policy level: None 1, Low 0.75, Medium 0.45, High 0.1, in
\* hundredths.
PolicyWeight(level) ==
    IF level = "None" THEN 100
    ELSE IF level = "Low" THEN 75
    ELSE IF level = "Medium" THEN 45
    ELSE 10

\* The policy levels from the weakest to the strongest.
PolicyStrength == <<"None", "Low", "Medium", "High">>

\* The step is a policy selection.
PolicySelection ==
    /\ returnValues' # <<>>
    /\ Len(returnValues'[1]) = 1
    /\ returnValues'[1][1][2] = "Policy Strength"

\* C16: after any sequence of policy selections the stored policy score is
\* the weight of the level selected last (1 before any selection), so it is
\* always one of 1, 0.75, 0.45, 0.1, and a strictly stronger policy always
\* gives a strictly lower score.
C16_PolicyScoreOfSelectedLevel ==
    /\ values.policy = 100
    /\ [](values.policy \in {100, 75, 45, 10})
    /\ [][IF PolicySelection
          THEN values'.policy = PolicyWeight(returnValues'[1][1][3])
          ELSE values'.policy = values.policy]_vars
    /\ [](\A a, b \in 1 .. Len(PolicyStrength) :
             a < b => \A weaker \in PolicyReturnValues, stronger \in PolicyReturnValues :
                          (weaker[1][3] = PolicyStrength[a]
                           /\ stronger[1][3] = PolicyStrength[b])
                              => stronger[1][4] < weaker[1][4])

\* The strongest policy is selected and its score stored.
C16_Witness ==
    /\ returnValues # <<>>
    /\ Len(Selected) = 1
    /\ Selected[1][3] = "High"
    /\ values.policy = 10

\* ------------------------------------------------------------------------
\* Properties of the import panel
\* ------------------------------------------------------------------------

\* The message boxes of the input validation errors of the import panel.
ValidationErrors ==
    { <<"Please fill in the device name.">>,
      <<"Please enter a CPE name.">>,
      <<"Please ensure CVE IDs have unique names.">> }

\* An Add Device form that is not valid: no name, or two rows with the same
\* vulnerability id.
InvalidSave(name, rows) ==
    \/ Strip(name) = ""
    \/ \E i, j \in 1 .. Len(rows) :
           i < j /\ Strip(rows[i][1]) # "" /\ Strip(rows[i][1]) = Strip(rows[j][1])

\* C17: an input validation error leaves the session state unchanged.  A step
\* that reports one of the validation errors changes neither the device
\* collection, its list and display, nor the stored search terms, nor the
\* result of the last lookup; an Individual search with an empty name and a
\* save with an empty name or a repeated vulnerability id report the error.
C17_ValidationErrorChangesNothing ==
    /\ [][dialogs' \in ValidationErrors
            => UNCHANGED <<importVars, parameterVars, mainVars>>]_vars
    /\ [][\A name \in ManualNames, rows \in ManualForms :
              (InvalidSave(name, rows) /\ save_device(name, rows))
                  => dialogs' \in { <<"Please enter a CPE name.">>,
                                   <<"Please ensure CVE IDs have unique names.">> }]_vars
    /\ [][\A name \in SearchNames :
              (Strip(name) = ""
               /\ handle_search("Individual", name, {}, [i \in {1} |-> "None"], FALSE, {}))
                  => dialogs' = <<"Please fill in the device name.">>]_vars

\* A save with a repeated vulnerability id was refused after a device was
\* imported by a search.
C17_Witness ==
    /\ dialogs = <<"Please ensure CVE IDs have unique names.">>
    /\ Len(deviceInfoList) = 1
    /\ search_terms # <<>>

\* The title of the summary of nvd.showNotFoundDevicesPopup.
Summary == "Devices Not Found or Need Refinement"

\* How often a message box is among those shown.
Times(box, boxes) == Cardinality({k \in 1 .. Len(boxes) : boxes[k] = box})

\* The terms the summary of a pass lists, given the globals after it.
FailingTerms(globals) ==
    {globals.notFoundDevices[k] : k \in 1 .. Len(globals.notFoundDevices)}
        \cup {globals.refineSearchDevices[k] : k \in 1 .. Len(globals.refineSearchDevices)}

\* The terms of a pass that are not in its summary, in order.
ResolvedTerms(terms, globals) ==
    SelectSeq(terms, LAMBDA t : t[1] \notin FailingTerms(globals))

RECURSIVE CountSum(_)
\* The sum of the repeat counts of a list of (name, count) pairs.
CountSum(pairs) ==
    IF pairs = <<>> THEN 0 ELSE Head(pairs)[2] + CountSum(Tail(pairs))

\* The records a step appended to the collection.
Added(before, after) == SubSeq(after, Len(before) + 1, Len(after))

\* What a pass over terms with the globals after it has done to the
\* collection: each term is in the summary or resolved to a product the NVD
\* holds for it, the devices before are kept, and each product has as many
\* new records as the counts of the terms resolved to it.
PassImported(terms, globals, before, after) ==
    LET resolved == ResolvedTerms(terms, globals)
        products == globals.officialCPE
        added == Added(before, after)
    IN  /\ Len(products) = Len(resolved)
        /\ \A i \in 1 .. Len(products) :
               /\ products[i][2] = resolved[i][2]
               /\ \E k \in 1 .. Len(search_nvd_cpe(resolved[i][1])) :
                      search_nvd_cpe(resolved[i][1])[k] = products[i][1]
        /\ Len(after) >= Len(before)
        /\ SubSeq(after, 1, Len(before)) = before
        /\ Len(added) = CountSum(resolved)
        /\ \A i \in 1 .. Len(products) :
               Cardinality({k \in 1 .. Len(added) : added[k][1] = products[i][1]})
                   = CountSum(SelectSeq(products, LAMBDA p : p[1] = products[i][1]))

\* C18: after a search pass with failing terms, every term that resolved has
\* added exactly its repeat count of device records, the devices imported
\* earlier are kept, the failing terms have added none, and the failing terms
\* were reported in one summary.
C18_PassAddsResolvedTermsOnly ==
    [][Times(Summary, dialogs') > 0
          => /\ PassImported(search_terms', nvd', deviceInfoList, deviceInfoList')
             /\ Times(Summary, dialogs') = 1
             /\ FailingTerms(nvd') # {}]_vars

\* The text the display has for the collection list: 0.00 for the empty
\* collection, else 1 minus the product over the devices of
\* 1 - deviceResilience, with two decimals.
DisplayFor(list) ==
    IF list = <<>> THEN 0
    ELSE update_result_button(RSub[ROne, SurvivalProduct[list]])

\* C19: after every mutation of the device collection (a vulnerability
\* toggled, a device added, a device removed, the collection cleared) the
\* probability shown is the one recomputed from the collection as it stands
\* after the mutation, 0.00 when no device remains.
C19_DisplayFollowsCollection ==
    [][deviceInfoList' # deviceInfoList
          => totalCompromiseDisplay' = DisplayFor(deviceInfoList')]_vars

\* C20: get_import_values is idempotent.  Every handler that changes the
\* collection ends with a call of it, so a handler that calls it and leaves
\* the collection as it is (Calculate Cryptoperiod, Remove or Clear answered
\* No) makes a second call in a row: that call leaves the displayed value as
\* the first left it, and two Calculate requests in a row, which print the
\* probability the call returned, print the same one.  (Clear answered Yes
\* writes 0.00 itself and is not such a call.)
C20_RecalculationIdempotent ==
    /\ [][(deviceInfoList' = deviceInfoList /\ dialogs' # <<"Clear All Devices">>)
              => totalCompromiseDisplay' = totalCompromiseDisplay]_vars
    /\ [][(probabilities # <<>> /\ probabilities' # <<>>)
              => /\ probabilities' = probabilities
                 /\ deviceInfoList' = deviceInfoList]_vars

\* Calculate Cryptoperiod has recalculated for a collection of two devices
\* that the handler before it had recalculated for.
C20_Witness ==
    /\ probabilities # <<>>
    /\ Len(deviceInfoList) = 2
    /\ totalCompromiseDisplay = DisplayFor(deviceInfoList)

\* ------------------------------------------------------------------------
\* Properties of the stored vulnerability records
\* ------------------------------------------------------------------------

\* The vulnerability records of the collection, as pairs of a row and a
\* position in the device of that row.
StoredRecords == UNION {{<<d, k>> : k \in 1 .. Len(CvesOf(d))} : d \in Devices}

RecordAt(at) == CvesOf(at[1])[at[2]]

\* The CVE items of the catalogue whose first metric has a confidentiality
\* impact other than NONE, LOW and HIGH, or that have no metric at all.
UnrecognisedIds == {"CVE-N3", "CVE-N4", "CVE-N5"}

\* C22: every vulnerability record stored in the collection has an impact
\* category in {NONE, LOW, HIGH}, whatever the lookup returned: a record made
\* from a CVE item with another category, or with no metric, holds NONE.
C22_StoredImpactIsRecognised ==
    \A at \in StoredRecords :
        /\ CveImpact(RecordAt(at)) \in {"NONE", "LOW", "HIGH"}
        /\ CveId(RecordAt(at)) \in UnrecognisedIds => CveImpact(RecordAt(at)) = "NONE"

\* A search has stored a CVE whose category was PARTIAL and one without a
\* metric, next to a device entered by hand.
C22_Witness ==
    /\ \E at \in StoredRecords : CveId(RecordAt(at)) = "CVE-N3"
    /\ \E at \in StoredRecords : CveId(RecordAt(at)) = "CVE-N5"
    /\ \E at \in StoredRecords : CveId(RecordAt(at)) = "CVE-M1"

\* C23: every vulnerability record stored in the collection has an
\* exploitability score within [0, 3.9] (0 .. 390 hundredths), whether it came
\* from the lookup or from the Add Device dialog.
C23_StoredExploitabilityInRange ==
    \A at \in StoredRecords : CveExploit(RecordAt(at)) \in 0 .. 390

\* The vulnerabilities of a device with the enabled flag of entry k inverted.
Inverted(cves, k) == [cves EXCEPT ![k] = <<cves[k][1], ~CveStatus(cves[k])>>]

\* C24: within each device of the collection the vulnerability ids are
\* pairwise distinct, so for every stored vulnerability the loop of toggleCVE
\* run on its id changes the enabled flag of that entry and nothing else.
C24_IdsDistinctWithinDevice ==
    /\ \A d \in Devices :
           \A j, k \in 1 .. Len(CvesOf(d)) :
               j # k => CveId(CvesOf(d)[j]) # CveId(CvesOf(d)[k])
    /\ \A at \in StoredRecords :
           ToggledCves(CvesOf(at[1]), CveId(RecordAt(at)), ~CveStatus(RecordAt(at)))
               = Inverted(CvesOf(at[1]), at[2])

\* A form with a repeated id has just been rejected while the collection holds
\* a device from a search and a device entered by hand, each with its second
\* vulnerability unticked and its first still enabled.
C24_Witness ==
    /\ dialogs = <<"Please ensure CVE IDs have unique names.">>
    /\ \E d \in Devices :
           /\ Len(CvesOf(d)) = 2
           /\ CveId(CvesOf(d)[2]) = "CVE-N2"
           /\ ~CveStatus(CvesOf(d)[2]) /\ CveStatus(CvesOf(d)[1])
    /\ \E d \in Devices :
           /\ Len(CvesOf(d)) = 2
           /\ CveId(CvesOf(d)[2]) = "CVE-M2"
           /\ ~CveStatus(CvesOf(d)[2]) /\ CveStatus(CvesOf(d)[1])

\* ------------------------------------------------------------------------
\* Properties of the final risk
\* ------------------------------------------------------------------------

\* C25: a run of ShowResults that reaches its formula computes the final risk
\* from the three values the scorers stored last: the probability printed is
\* 1 - (1 - p) * (1 - values.policy), and the impact and the final risk are
\* then computed from values.impact and values.information, so that the run
\* ends without an exception and with a cryptoperiod.
C25_FinalRiskFromStoredScores ==
    [][probabilities' # <<>> =>
           /\ probabilities'[1].probability =
                  RSub[ROne, RMul[RSub[ROne, probabilities'[1].deviceProbability],
                                  RSub[ROne, R(values.policy, 100)]]]
           /\ raised' = ""
           /\ cryptoperiod' # <<>>]_vars

\* ------------------------------------------------------------------------
\* Properties of the collection and its list
\* ------------------------------------------------------------------------

\* The collection and the list are empty and the display shows 0.00.
Cleared ==
    /\ deviceInfoList = <<>>
    /\ results_list = <<>>
    /\ results_to_device_map = <<>>
    /\ totalCompromiseDisplay = 0

\* C26: the collection is empty when the session starts; a Clear Devices
\* request the operator confirms leaves the collection and the list empty and
\* the display at 0.00; one the operator declines leaves the collection, the
\* list and the display as they were.
C26_ClearEmptiesOnlyWhenConfirmed ==
    /\ Cleared
    /\ [][clear_devices("Yes") => Cleared']_vars
    /\ [][clear_devices("No") =>
              UNCHANGED <<deviceInfoList, results_list, results_to_device_map,
                          totalCompromiseDisplay>>]_vars

\* A Clear Devices request has just been declined with two devices in the
\* collection and a display above the base rate.
C26_Witness ==
    /\ dialogs = <<"Clear All Devices">>
    /\ Len(deviceInfoList) = 2
    /\ Len(results_list) = 2
    /\ totalCompromiseDisplay > 3

\* C27: after any sequence of searches, manual additions, toggles, removals
\* and clears the displayed list and the collection have the same length and
\* the i-th row of the list names the i-th device of the collection.
C27_ListFollowsCollection ==
    /\ Len(results_list) = Len(deviceInfoList)
    /\ \A i \in 1 .. Len(deviceInfoList) : results_list[i] = deviceInfoList[i][1]

\* The popup of a device has just asked about its removal, and the device a
\* search imported is the only one left, after a later search found nothing.
C27_Witness ==
    /\ dialogs = <<"Remove Device">>
    /\ nvd.notFoundDevices = <<"zz">>
    /\ Len(deviceInfoList) = 1
    /\ results_list = <<"cpe:plc">>

\* C28: toggling a vulnerability of a device changes the enabled flag of that
\* vulnerability in that device and no other record of the collection: every
\* other vulnerability of the device and every vulnerability of every other
\* device is as before, also in the devices a search made from the same
\* result with a repeat count above 1.
C28_ToggleChangesOneRecord ==
    [][\A at \in StoredRecords :
           toggleCVE(at[1], CveId(RecordAt(at)), ~CveStatus(RecordAt(at))) =>
               deviceInfoList' =
                   [deviceInfoList EXCEPT
                       ![at[1]] = <<deviceInfoList[at[1]][1],
                                    Inverted(CvesOf(at[1]), at[2])>>]]_vars

\* A batch file with a repeated line gave two devices of one product, and
\* the first vulnerability is unticked in the first of them only.
C28_Witness ==
    /\ nvd.officialCPE = <<<<"cpe:plc", 2>>>>
    /\ Len(deviceInfoList) = 2
    /\ deviceInfoList[1][1] = deviceInfoList[2][1]
    /\ dialogs = <<>>
    /\ ~CveStatus(CvesOf(1)[1])
    /\ CveStatus(CvesOf(2)[1])

\* ------------------------------------------------------------------------
\* Properties of the searches
\* ------------------------------------------------------------------------

\* The cpeNames the NVD holds for a term, and the elements of a list.
Hits(term) == {search_nvd_cpe(term)[k] : k \in 1 .. Len(search_nvd_cpe(term))}
Elements(seq) == {seq[k] : k \in 1 .. Len(seq)}

\* C29: a term whose lookup thread has not signalled when the wait of
\* timeoutTimer seconds ends is listed as needing refinement and the pass adds
\* no device for it; when the thread returns later, its result reaches
\* neither the collection nor the classification lists.
C29_TimedOutLookupAddsNothing ==
    /\ [][\A timedOut \in SUBSET DOMAIN search_terms, lookupFails \in BOOLEAN :
             \A running \in SUBSET timedOut :
                 handle_search("Group", "", timedOut,
                               [i \in DOMAIN search_terms |-> "None"], lookupFails, running)
                 => \A i \in timedOut :
                        /\ search_terms[i][1] \in Elements(nvd'.refineSearchDevices)
                        /\ \A cpe \in Hits(search_terms[i][1]) :
                               /\ cpe \notin Elements(RowsOf(Added(deviceInfoList,
                                                                  deviceInfoList')))
                               /\ \A entry \in Elements(nvd'.officialCPE) : entry[1] # cpe]_vars
    /\ [][(lookupThreads' # lookupThreads /\ lookupThreads' \subseteq lookupThreads) =>
              UNCHANGED <<deviceInfoList, cvesObject, results_list, results_to_device_map,
                          totalCompromiseDisplay, nvd>>]_vars

\* Both lookups of a batch timed out; one thread has returned since and the
\* other is still running, and the collection holds no device.
C29_Witness ==
    /\ lookupThreads = {"zz"}
    /\ nvd.refineSearchDevices = <<"plc", "zz">>
    /\ nvd.officialCPE = <<>>
    /\ deviceInfoList = <<>>

\* The terms a batch file of the operator loads into search_terms, and the
\* empty list of a session in which no file has been loaded.
BatchTerms == {<<>>} \cup {CountLines(lines, <<>>) : lines \in GroupFiles}

\* C30: a Group search looks up the terms of the batch file loaded last, with
\* their counts, whatever Individual searches were made since: the list a
\* Group search passes to the lookup is the list of a batch file (the empty
\* one before any file is loaded).
C30_GroupSearchUsesLoadedFile ==
    [][(\E timedOut \in SUBSET DOMAIN search_terms, lookupFails \in BOOLEAN :
            handle_search("Group", "", timedOut, [i \in DOMAIN search_terms |-> "None"],
                          lookupFails, {}))
           => search_terms \in BatchTerms]_vars

====
